---- MODULE Spec2Model ----
(***************************************************************************)
(* MindSpace appointment core (src/appointments.js) over the IndexedDB     *)
(* wrapper MindSpaceDB and TherapistManager (src/unnamed/part_000).         *)
(*                                                                         *)
(* Representation.  A date string 'YYYY-MM-DD' is a day number.  A time    *)
(* string 'HH:MM' is the tuple of its four digits <<H,H,M,M>>, so that     *)
(* string equality (isSlotAvailable) and parsing (hasConflict) are         *)
(* different computations.  Instants are minutes since day 0 (the code     *)
(* uses milliseconds; every quantity it adds is a multiple of 60000).      *)
(* The audit stamps createdAt / cancelledAt / rescheduledAt / completedAt  *)
(* and the field `type` are written and never read by any operation; they  *)
(* are left out of the records.                                            *)
(***************************************************************************)
EXTENDS Integers, Sequences, FiniteSets, TLC

\* ------------------------------------------------------------------ bounds
\* Largest number of appointment records the store may hold.
MaxAppts == 2

\* ------------------------------------------------------------------ inputs
Users == {"u1", "u2"}
Therapists == {"t1", "t2"}
Statuses == {"confirmed", "completed", "cancelled"}

\* time strings '09:00', '09:49', '09:50'
T0900 == <<0, 9, 0, 0>>
T0949 == <<0, 9, 4, 9>>
T0950 == <<0, 9, 5, 0>>

\* (date, time) pairs a caller asks for when booking or rescheduling
Slots == {<<1, T0900>>, <<1, T0950>>, <<2, T0900>>}
\* 0 stands for a missing duration (falsy in `appointmentData.duration || 50`)
Durations == {0}
\* note texts: no operation reads the notes of an appointment
BookNotes == {""}
NewNotes == {""}
ApptIds == 1..(MaxAppts + 1)
Procs == {"p1", "p2"}

\* ------------------------------------------------------------------- state
VARIABLES
  appointments,    \* object store 'appointments': id -> record
  nextId,          \* key generator of the store (autoIncrement)
  userTherapists,  \* object store 'userTherapists' (connection records)
  last,            \* what the most recent call returned
  calls,           \* bookAppointment calls in flight, one per caller
  conflictCall,    \* arguments and result of the most recent hasConflict call
  therapists,      \* object store 'therapists': id -> record
  query,           \* arguments and result of the most recent read-only query
  slotsLoop,       \* generateTimeSlots in progress: its locals and position
  moods,           \* object store 'moods': id -> record
  nextMoodId,      \* key generator of the moods store (autoIncrement)
  users,           \* object store 'users' (records keyed by id)
  sessions,        \* object store 'sessions' (records keyed by userId)
  nextConnId       \* key generator of the userTherapists store (autoIncrement)

vars ==
  <<appointments, nextId, userTherapists, last, calls, conflictCall,
    therapists, query, slotsLoop, moods, nextMoodId, users, sessions, nextConnId>>

\* A call's return value {success, message, appointmentId}: `id` is the
\* appointmentId bookAppointment returns (0: none); `op` names the method
\* called; `was` is the status completeAppointment read from the store before
\* writing ("none" for every other method).
NoResult == [op |-> "none", success |-> FALSE, message |-> "", id |-> 0, was |-> "none"]

Result(op, success, message, id, was) ==
  [op |-> op, success |-> success, message |-> message, id |-> id, was |-> was]

\* The registered users; of a user record the operations here read the id
\* and the password.
InitialUsers ==
  { [id |-> "u1", password |-> "pw1"], [id |-> "u2", password |-> "pw2"] }

\* Connections present when the model starts: u1 is connected to both
\* therapists, u2 to none.
InitialConnections ==
  { [id |-> 1, userId |-> "u1", therapistId |-> "t1", status |-> "active"],
    [id |-> 2, userId |-> "u1", therapistId |-> "t2", status |-> "active"] }

\* The first two records initSampleData puts into the 'therapists' store;
\* of a therapist record only `availability` is read by the operations here.
SampleTherapists ==
  ("t1" :> [availability |-> {"Monday", "Tuesday", "Wednesday", "Thursday"}])
  @@ ("t2" :> [availability |-> {"Tuesday", "Wednesday", "Thursday", "Friday"}])

\* no read-only query has been made
NoQuery == [op |-> "none", args |-> <<>>, result |-> <<>>]

\* generateTimeSlots is not running
NoLoop ==
  [ pc |-> "idle", startHour |-> 0, endHour |-> 0, duration |-> 0,
    currentTime |-> 0, endTime |-> 0, slots |-> <<>> ]

\* --------------------------------------------------------------- operators
\* TherapistManager.isConnected
IsConnected(conns, userId, therapistId, fault) ==
  IF fault = "connRead"
    THEN FALSE
    ELSE \E conn \in conns :
           /\ conn.userId = userId
           /\ conn.therapistId = therapistId
           /\ conn.status = "active"

\* mutant: the lookup is not restricted to the therapist's appointments
IsSlotAvailableAnyTherapist(appts, therapistId, date, time, fault) ==
  IF fault = "apptRead"
    THEN FALSE
    ELSE ~ \E id \in DOMAIN appts :
             /\ appts[id].date = date
             /\ appts[id].time = time
             /\ appts[id].status # "cancelled"

\* mutant: a cancelled appointment still blocks its slot
IsSlotAvailableCountsCancelled(appts, therapistId, date, time, fault) ==
  IF fault = "apptRead"
    THEN FALSE
    ELSE ~ \E id \in DOMAIN appts :
             /\ appts[id].therapistId = therapistId
             /\ appts[id].date = date
             /\ appts[id].time = time

\* AppointmentManager.isSlotAvailable
IsSlotAvailable(appts, therapistId, date, time, fault) ==
  IF fault = "apptRead"
    THEN FALSE
    ELSE ~ \E id \in DOMAIN appts :
             /\ appts[id].therapistId = therapistId
             /\ appts[id].date = date
             /\ appts[id].time = time
             /\ appts[id].status # "cancelled"

\* the appointment object built by bookAppointment
NewAppointment(userId, therapistId, date, time, duration, notes) ==
  [ userId |-> userId,
    therapistId |-> therapistId,
    date |-> date,
    time |-> time,
    duration |-> IF duration = 0 THEN 50 ELSE duration,
    status |-> "confirmed",
    notes |-> notes ]

\* mindspaceDB.add on the appointments store
Add(appts, id, record) == appts @@ (id :> record)

\* mindspaceDB.update (put) on the appointments store
Update(appts, id, record) == [appts EXCEPT ![id] = record]

\* ----------------------------------------------------------------- actions
\* mutant: the slot check runs before the connection check
BookAppointmentSlotFirst(userId, therapistId, date, time, duration, notes, fault) ==
  /\ UNCHANGED <<userTherapists, calls, conflictCall, therapists, query, slotsLoop, moods, nextMoodId, users, sessions, nextConnId>>
  /\ IF ~ IsSlotAvailable(appointments, therapistId, date, time, fault)
       THEN /\ last' = Result("book", FALSE, "This time slot is no longer available", 0, "none")
            /\ UNCHANGED <<appointments, nextId>>
       ELSE IF ~ IsConnected(userTherapists, userId, therapistId, fault)
         THEN /\ last' = Result("book", FALSE, "You must be connected with this therapist first", 0, "none")
              /\ UNCHANGED <<appointments, nextId>>
         ELSE IF fault = "add"
           THEN /\ last' = Result("book", FALSE, "Failed to book appointment", 0, "none")
                /\ UNCHANGED <<appointments, nextId>>
           ELSE /\ nextId <= MaxAppts
                /\ appointments' = Add(appointments, nextId,
                     NewAppointment(userId, therapistId, date, time, duration, notes))
                /\ nextId' = nextId + 1
                /\ last' = Result("book", TRUE, "Appointment booked successfully", nextId, "none")

\* ----------------------------------------------------------------- actions
BookAppointment(userId, therapistId, date, time, duration, notes, fault) ==
  /\ UNCHANGED <<userTherapists, calls, conflictCall, therapists, query, slotsLoop, moods, nextMoodId, users, sessions, nextConnId>>
  /\ IF ~ IsConnected(userTherapists, userId, therapistId, fault)
       THEN /\ last' = Result("book", FALSE, "You must be connected with this therapist first", 0, "none")
            /\ UNCHANGED <<appointments, nextId>>
       ELSE IF ~ IsSlotAvailable(appointments, therapistId, date, time, fault)
         THEN /\ last' = Result("book", FALSE, "This time slot is no longer available", 0, "none")
              /\ UNCHANGED <<appointments, nextId>>
         ELSE IF fault = "add"
           THEN /\ last' = Result("book", FALSE, "Failed to book appointment", 0, "none")
                /\ UNCHANGED <<appointments, nextId>>
           ELSE /\ nextId <= MaxAppts
                /\ appointments' = Add(appointments, nextId,
                     NewAppointment(userId, therapistId, date, time, duration, notes))
                /\ nextId' = nextId + 1
                /\ last' = Result("book", TRUE, "Appointment booked successfully", nextId, "none")

\* mutant: cancelling removes the record from the store
CancelAppointmentRemoves(appointmentId, fault) ==
  /\ UNCHANGED <<nextId, userTherapists, calls, conflictCall, therapists, query, slotsLoop, moods, nextMoodId, users, sessions, nextConnId>>
  /\ IF fault = "get"
       THEN /\ last' = Result("cancel", FALSE, "Failed to cancel appointment", 0, "none")
            /\ UNCHANGED appointments
       ELSE IF appointmentId \notin DOMAIN appointments
         THEN /\ last' = Result("cancel", FALSE, "Appointment not found", 0, "none")
              /\ UNCHANGED appointments
         ELSE LET appointment == appointments[appointmentId] IN
           IF appointment.status = "cancelled"
             THEN /\ last' = Result("cancel", FALSE, "Appointment is already cancelled", 0, "none")
                  /\ UNCHANGED appointments
             ELSE IF fault = "update"
               THEN /\ last' = Result("cancel", FALSE, "Failed to cancel appointment", 0, "none")
                    /\ UNCHANGED appointments
               ELSE /\ appointments' = [id \in DOMAIN appointments \ {appointmentId} |-> appointments[id]]
                    /\ last' = Result("cancel", TRUE, "Appointment cancelled successfully", 0, "none")

\* mutant: no 'already cancelled' guard
CancelAppointmentNoGuard(appointmentId, fault) ==
  /\ UNCHANGED <<nextId, userTherapists, calls, conflictCall, therapists, query, slotsLoop, moods, nextMoodId, users, sessions, nextConnId>>
  /\ IF fault = "get"
       THEN /\ last' = Result("cancel", FALSE, "Failed to cancel appointment", 0, "none")
            /\ UNCHANGED appointments
       ELSE IF appointmentId \notin DOMAIN appointments
         THEN /\ last' = Result("cancel", FALSE, "Appointment not found", 0, "none")
              /\ UNCHANGED appointments
         ELSE LET appointment == appointments[appointmentId] IN
           IF fault = "update"
             THEN /\ last' = Result("cancel", FALSE, "Failed to cancel appointment", 0, "none")
                  /\ UNCHANGED appointments
             ELSE /\ appointments' = Update(appointments, appointmentId,
                       [appointment EXCEPT !.status = "cancelled"])
                  /\ last' = Result("cancel", TRUE, "Appointment cancelled successfully", 0, "none")

CancelAppointment(appointmentId, fault) ==
  /\ UNCHANGED <<nextId, userTherapists, calls, conflictCall, therapists, query, slotsLoop, moods, nextMoodId, users, sessions, nextConnId>>
  /\ IF fault = "get"
       THEN /\ last' = Result("cancel", FALSE, "Failed to cancel appointment", 0, "none")
            /\ UNCHANGED appointments
       ELSE IF appointmentId \notin DOMAIN appointments
         THEN /\ last' = Result("cancel", FALSE, "Appointment not found", 0, "none")
              /\ UNCHANGED appointments
         ELSE LET appointment == appointments[appointmentId] IN
           IF appointment.status = "cancelled"
             THEN /\ last' = Result("cancel", FALSE, "Appointment is already cancelled", 0, "none")
                  /\ UNCHANGED appointments
             ELSE IF fault = "update"
               THEN /\ last' = Result("cancel", FALSE, "Failed to cancel appointment", 0, "none")
                    /\ UNCHANGED appointments
               ELSE /\ appointments' = Update(appointments, appointmentId,
                         [appointment EXCEPT !.status = "cancelled"])
                    /\ last' = Result("cancel", TRUE, "Appointment cancelled successfully", 0, "none")

\* mutant: the slot check leaves out the appointment being rescheduled
RescheduleAppointmentSkipsItself(appointmentId, newDate, newTime, fault) ==
  /\ UNCHANGED <<nextId, userTherapists, calls, conflictCall, therapists, query, slotsLoop, moods, nextMoodId, users, sessions, nextConnId>>
  /\ IF fault = "get"
       THEN /\ last' = Result("reschedule", FALSE, "Failed to reschedule appointment", 0, "none")
            /\ UNCHANGED appointments
       ELSE IF appointmentId \notin DOMAIN appointments
         THEN /\ last' = Result("reschedule", FALSE, "Appointment not found", 0, "none")
              /\ UNCHANGED appointments
         ELSE LET appointment == appointments[appointmentId] IN
           IF appointment.status = "cancelled"
             THEN /\ last' = Result("reschedule", FALSE, "Cannot reschedule a cancelled appointment", 0, "none")
                  /\ UNCHANGED appointments
             ELSE IF ~ IsSlotAvailable([id \in DOMAIN appointments \ {appointmentId} |-> appointments[id]],
                                       appointment.therapistId, newDate, newTime, fault)
               THEN /\ last' = Result("reschedule", FALSE, "The new time slot is not available", 0, "none")
                    /\ UNCHANGED appointments
               ELSE IF fault = "update"
                 THEN /\ last' = Result("reschedule", FALSE, "Failed to reschedule appointment", 0, "none")
                      /\ UNCHANGED appointments
                 ELSE /\ appointments' = Update(appointments, appointmentId,
                           [appointment EXCEPT !.date = newDate, !.time = newTime])
                      /\ last' = Result("reschedule", TRUE, "Appointment rescheduled successfully", 0, "none")

\* mutant: a rescheduled appointment is confirmed again
RescheduleAppointmentReconfirms(appointmentId, newDate, newTime, fault) ==
  /\ UNCHANGED <<nextId, userTherapists, calls, conflictCall, therapists, query, slotsLoop, moods, nextMoodId, users, sessions, nextConnId>>
  /\ IF fault = "get"
       THEN /\ last' = Result("reschedule", FALSE, "Failed to reschedule appointment", 0, "none")
            /\ UNCHANGED appointments
       ELSE IF appointmentId \notin DOMAIN appointments
         THEN /\ last' = Result("reschedule", FALSE, "Appointment not found", 0, "none")
              /\ UNCHANGED appointments
         ELSE LET appointment == appointments[appointmentId] IN
           IF appointment.status = "cancelled"
             THEN /\ last' = Result("reschedule", FALSE, "Cannot reschedule a cancelled appointment", 0, "none")
                  /\ UNCHANGED appointments
             ELSE IF ~ IsSlotAvailable(appointments, appointment.therapistId, newDate, newTime, fault)
               THEN /\ last' = Result("reschedule", FALSE, "The new time slot is not available", 0, "none")
                    /\ UNCHANGED appointments
               ELSE IF fault = "update"
                 THEN /\ last' = Result("reschedule", FALSE, "Failed to reschedule appointment", 0, "none")
                      /\ UNCHANGED appointments
                 ELSE /\ appointments' = Update(appointments, appointmentId,
                           [appointment EXCEPT !.date = newDate, !.time = newTime,
                                               !.status = "confirmed"])
                      /\ last' = Result("reschedule", TRUE, "Appointment rescheduled successfully", 0, "none")

RescheduleAppointment(appointmentId, newDate, newTime, fault) ==
  /\ UNCHANGED <<nextId, userTherapists, calls, conflictCall, therapists, query, slotsLoop, moods, nextMoodId, users, sessions, nextConnId>>
  /\ IF fault = "get"
       THEN /\ last' = Result("reschedule", FALSE, "Failed to reschedule appointment", 0, "none")
            /\ UNCHANGED appointments
       ELSE IF appointmentId \notin DOMAIN appointments
         THEN /\ last' = Result("reschedule", FALSE, "Appointment not found", 0, "none")
              /\ UNCHANGED appointments
         ELSE LET appointment == appointments[appointmentId] IN
           IF appointment.status = "cancelled"
             THEN /\ last' = Result("reschedule", FALSE, "Cannot reschedule a cancelled appointment", 0, "none")
                  /\ UNCHANGED appointments
             ELSE IF ~ IsSlotAvailable(appointments, appointment.therapistId, newDate, newTime, fault)
               THEN /\ last' = Result("reschedule", FALSE, "The new time slot is not available", 0, "none")
                    /\ UNCHANGED appointments
               ELSE IF fault = "update"
                 THEN /\ last' = Result("reschedule", FALSE, "Failed to reschedule appointment", 0, "none")
                      /\ UNCHANGED appointments
                 ELSE /\ appointments' = Update(appointments, appointmentId,
                           [appointment EXCEPT !.date = newDate, !.time = newTime])
                      /\ last' = Result("reschedule", TRUE, "Appointment rescheduled successfully", 0, "none")

\* mutant: only a confirmed appointment can be completed
CompleteAppointmentGuarded(appointmentId, fault) ==
  /\ UNCHANGED <<nextId, userTherapists, calls, conflictCall, therapists, query, slotsLoop, moods, nextMoodId, users, sessions, nextConnId>>
  /\ IF fault = "get"
       THEN /\ last' = Result("complete", FALSE, "Failed to complete appointment", 0, "none")
            /\ UNCHANGED appointments
       ELSE IF appointmentId \notin DOMAIN appointments
         THEN /\ last' = Result("complete", FALSE, "Appointment not found", 0, "none")
              /\ UNCHANGED appointments
         ELSE LET appointment == appointments[appointmentId] IN
           IF appointment.status # "confirmed" \/ fault = "update"
             THEN /\ last' = Result("complete", FALSE, "Failed to complete appointment", 0, appointment.status)
                  /\ UNCHANGED appointments
             ELSE /\ appointments' = Update(appointments, appointmentId,
                       [appointment EXCEPT !.status = "completed"])
                  /\ last' = Result("complete", TRUE, "Appointment marked as completed", 0, appointment.status)

CompleteAppointment(appointmentId, fault) ==
  /\ UNCHANGED <<nextId, userTherapists, calls, conflictCall, therapists, query, slotsLoop, moods, nextMoodId, users, sessions, nextConnId>>
  /\ IF fault = "get"
       THEN /\ last' = Result("complete", FALSE, "Failed to complete appointment", 0, "none")
            /\ UNCHANGED appointments
       ELSE IF appointmentId \notin DOMAIN appointments
         THEN /\ last' = Result("complete", FALSE, "Appointment not found", 0, "none")
              /\ UNCHANGED appointments
         ELSE LET appointment == appointments[appointmentId] IN
           IF fault = "update"
             THEN /\ last' = Result("complete", FALSE, "Failed to complete appointment", 0, appointment.status)
                  /\ UNCHANGED appointments
             ELSE /\ appointments' = Update(appointments, appointmentId,
                       [appointment EXCEPT !.status = "completed"])
                  /\ last' = Result("complete", TRUE, "Appointment marked as completed", 0, appointment.status)

UpdateNotes(appointmentId, notes, fault) ==
  /\ UNCHANGED <<nextId, userTherapists, calls, conflictCall, therapists, query, slotsLoop, moods, nextMoodId, users, sessions, nextConnId>>
  /\ IF fault = "get"
       THEN /\ last' = Result("notes", FALSE, "Failed to update notes", 0, "none")
            /\ UNCHANGED appointments
       ELSE IF appointmentId \notin DOMAIN appointments
         THEN /\ last' = Result("notes", FALSE, "Appointment not found", 0, "none")
              /\ UNCHANGED appointments
         ELSE LET appointment == appointments[appointmentId] IN
           IF fault = "update"
             THEN /\ last' = Result("notes", FALSE, "Failed to update notes", 0, "none")
                  /\ UNCHANGED appointments
             ELSE /\ appointments' = Update(appointments, appointmentId,
                       [appointment EXCEPT !.notes = notes])
                  /\ last' = Result("notes", TRUE, "Notes updated successfully", 0, "none")

\* ------------------------------------------- one call at a time (one writer)
\* Every store request succeeds in this specification.
Idle ==
  [ pc |-> "idle", userId |-> "", therapistId |-> "", date |-> 0, time |-> <<>>,
    duration |-> 0, notes |-> "", isAvailable |-> FALSE, result |-> NoResult ]

NoConflictCall ==
  [ op |-> "none", userId |-> "", date |-> 0, time |-> <<>>, duration |-> 0,
    fault |-> "none", result |-> FALSE ]

Init ==
  /\ appointments = <<>>
  /\ nextId = 1
  /\ userTherapists = InitialConnections
  /\ last = NoResult
  /\ calls = [p \in Procs |-> Idle]
  /\ conflictCall = NoConflictCall
  /\ therapists = SampleTherapists
  /\ query = NoQuery
  /\ slotsLoop = NoLoop
  /\ moods = <<>>
  /\ nextMoodId = 1
  /\ users = InitialUsers
  /\ sessions = {}
  /\ nextConnId = Cardinality(InitialConnections) + 1

Book ==
  \E userId \in Users, therapistId \in Therapists, slot \in Slots,
     duration \in Durations, notes \in BookNotes :
    BookAppointment(userId, therapistId, slot[1], slot[2], duration, notes, "none")

Cancel ==
  \E appointmentId \in ApptIds : CancelAppointment(appointmentId, "none")

Reschedule ==
  \E appointmentId \in ApptIds, slot \in Slots :
    RescheduleAppointment(appointmentId, slot[1], slot[2], "none")

Complete ==
  \E appointmentId \in ApptIds : CompleteAppointment(appointmentId, "none")

Notes ==
  \E appointmentId \in ApptIds, notes \in NewNotes :
    UpdateNotes(appointmentId, notes, "none")

Next == Book \/ Cancel \/ Reschedule \/ Complete \/ Notes

Spec == Init /\ [][Next]_vars

\* ------------------------------------------- interleaved bookAppointment calls
\* bookAppointment awaits three store requests in turn: the connection
\* lookup, the therapist's appointments lookup and the insert.  Each request
\* is atomic in the store; other calls may run between two of them.
InFlight(pc, userId, therapistId, date, time, duration, notes, isAvailable, result) ==
  [ pc |-> pc, userId |-> userId, therapistId |-> therapistId, date |-> date,
    time |-> time, duration |-> duration, notes |-> notes,
    isAvailable |-> isAvailable, result |-> result ]

\* the call is made and its connection lookup answers
RaceBegin(p, userId, therapistId, date, time, duration, notes) ==
  /\ calls[p].pc = "idle"
  /\ calls' = [calls EXCEPT ![p] =
       IF IsConnected(userTherapists, userId, therapistId, "none")
         THEN InFlight("slot", userId, therapistId, date, time, duration, notes,
                       FALSE, NoResult)
         ELSE InFlight("done", userId, therapistId, date, time, duration, notes,
                       FALSE,
                       Result("book", FALSE, "You must be connected with this therapist first", 0, "none"))]
  /\ UNCHANGED <<appointments, nextId, userTherapists, last, conflictCall, therapists, query, slotsLoop, moods, nextMoodId, users, sessions, nextConnId>>

\* the appointments lookup of isSlotAvailable answers
RaceCheckSlot(p) ==
  /\ calls[p].pc = "slot"
  /\ LET c == calls[p]
         isAvailable == IsSlotAvailable(appointments, c.therapistId, c.date, c.time, "none")
     IN calls' = [calls EXCEPT ![p] =
          IF isAvailable
            THEN [c EXCEPT !.pc = "add", !.isAvailable = TRUE]
            ELSE [c EXCEPT !.pc = "done",
                           !.result = Result("book", FALSE, "This time slot is no longer available", 0, "none")]]
  /\ UNCHANGED <<appointments, nextId, userTherapists, last, conflictCall, therapists, query, slotsLoop, moods, nextMoodId, users, sessions, nextConnId>>

\* mutant: the insert is a conditional write that checks the slot again
RaceInsertChecked(p) ==
  /\ calls[p].pc = "add"
  /\ nextId <= MaxAppts
  /\ LET c == calls[p] IN
       IF IsSlotAvailable(appointments, c.therapistId, c.date, c.time, "none")
         THEN /\ appointments' = Add(appointments, nextId,
                   NewAppointment(c.userId, c.therapistId, c.date, c.time, c.duration, c.notes))
              /\ nextId' = nextId + 1
              /\ calls' = [calls EXCEPT ![p] =
                   [c EXCEPT !.pc = "done",
                             !.result = Result("book", TRUE, "Appointment booked successfully", nextId, "none")]]
         ELSE /\ UNCHANGED <<appointments, nextId>>
              /\ calls' = [calls EXCEPT ![p] =
                   [c EXCEPT !.pc = "done",
                             !.result = Result("book", FALSE, "Failed to book appointment", 0, "none")]]
  /\ UNCHANGED <<userTherapists, last, conflictCall, therapists, query, slotsLoop, moods, nextMoodId, users, sessions, nextConnId>>

\* mindspaceDB.add answers and the call returns
RaceInsert(p) ==
  /\ calls[p].pc = "add"
  /\ nextId <= MaxAppts
  /\ LET c == calls[p] IN
       /\ appointments' = Add(appointments, nextId,
            NewAppointment(c.userId, c.therapistId, c.date, c.time, c.duration, c.notes))
       /\ nextId' = nextId + 1
       /\ calls' = [calls EXCEPT ![p] =
            [c EXCEPT !.pc = "done",
                      !.result = Result("book", TRUE, "Appointment booked successfully", nextId, "none")]]
  /\ UNCHANGED <<userTherapists, last, conflictCall, therapists, query, slotsLoop, moods, nextMoodId, users, sessions, nextConnId>>

RaceCall ==
  \E p \in Procs, userId \in Users, therapistId \in Therapists, slot \in Slots,
     duration \in Durations, notes \in BookNotes :
    RaceBegin(p, userId, therapistId, slot[1], slot[2], duration, notes)

RaceCheck == \E p \in Procs : RaceCheckSlot(p)

RaceAdd == \E p \in Procs : RaceInsert(p)

NextRace == RaceCall \/ RaceCheck \/ RaceAdd

SpecRace == Init /\ [][NextRace]_vars

\* ------------------------------------------------- hasConflict on a snapshot
\* minutes after midnight of an 'HH:MM' string, as the Date constructor reads it
ParseTime(time) == (time[1] * 10 + time[2]) * 60 + time[3] * 10 + time[4]

\* new Date(`${date} ${time}`).getTime(), in minutes
DateTime(date, time) == date * (24 * 60) + ParseTime(time)

\* AppointmentManager.getAppointmentsByDate (ids of the records it returns);
\* it catches a failed read itself and returns the empty list
GetAppointmentsByDate(appts, userId, date, fault) ==
  IF fault = "apptRead"
    THEN {}
    ELSE {id \in DOMAIN appts : appts[id].userId = userId /\ appts[id].date = date}

\* mutant: intervals that touch at an endpoint count as overlapping
HasConflictInclusive(appts, userId, date, time, duration, fault) ==
  LET startTime == DateTime(date, time)
      endTime == startTime + duration
  IN \E id \in GetAppointmentsByDate(appts, userId, date, fault) :
       /\ appts[id].status # "cancelled"
       /\ LET aptStart == DateTime(appts[id].date, appts[id].time)
              aptEnd == aptStart + appts[id].duration
          IN startTime <= aptEnd /\ endTime >= aptStart

\* AppointmentManager.hasConflict
HasConflict(appts, userId, date, time, duration, fault) ==
  LET startTime == DateTime(date, time)
      endTime == startTime + duration
  IN \E id \in GetAppointmentsByDate(appts, userId, date, fault) :
       /\ appts[id].status # "cancelled"
       /\ LET aptStart == DateTime(appts[id].date, appts[id].time)
              aptEnd == aptStart + appts[id].duration
          IN startTime < aptEnd /\ endTime > aptStart

\* appointment records a store may hold when hasConflict is called
ConflictRecords ==
  [ userId : Users, therapistId : {"t1"}, date : {1, 2}, time : {T0900, T0950},
    duration : {30, 50}, status : Statuses, notes : {""} ]

\* stores of at most MaxAppts such records that one-at-a-time calls produce:
\* two 'confirmed' appointments never share (therapist, date, time)
ConflictStores ==
  { st \in UNION { [1..n -> ConflictRecords] : n \in 0..MaxAppts } :
      \A i, j \in DOMAIN st :
        ( /\ i # j
          /\ st[i].status = "confirmed"
          /\ st[j].status = "confirmed" )
        => <<st[i].therapistId, st[i].date, st[i].time>>
             # <<st[j].therapistId, st[j].date, st[j].time>> }

ConflictUsers == {"u1"}
ConflictDates == {1}
ConflictTimes == {T0900, T0949, T0950}
ConflictDurations == {30, 50}

InitConflict ==
  /\ appointments \in ConflictStores
  /\ nextId = Len(appointments) + 1
  /\ userTherapists = InitialConnections
  /\ last = NoResult
  /\ calls = [p \in Procs |-> Idle]
  /\ conflictCall = NoConflictCall
  /\ therapists = SampleTherapists
  /\ query = NoQuery
  /\ slotsLoop = NoLoop
  /\ moods = <<>>
  /\ nextMoodId = 1
  /\ users = InitialUsers
  /\ sessions = {}
  /\ nextConnId = Cardinality(InitialConnections) + 1

ConflictCheck(userId, date, time, duration, fault) ==
  /\ conflictCall' =
       [ op |-> "hasConflict", userId |-> userId, date |-> date, time |-> time,
         duration |-> duration, fault |-> fault,
         result |-> HasConflict(appointments, userId, date, time, duration, fault) ]
  /\ UNCHANGED <<appointments, nextId, userTherapists, last, calls,
                 therapists, query, slotsLoop, moods, nextMoodId, users, sessions, nextConnId>>

NextConflict ==
  \E userId \in ConflictUsers, date \in ConflictDates, time \in ConflictTimes,
     duration \in ConflictDurations :
    ConflictCheck(userId, date, time, duration, "none")

SpecConflict == InitConflict /\ [][NextConflict]_vars

\* hasConflict when the read of the user's appointments may fail
ConflictFaults == {"none", "apptRead"}

NextConflictFault ==
  \E userId \in ConflictUsers, date \in ConflictDates, time \in ConflictTimes,
     duration \in ConflictDurations, fault \in ConflictFaults :
    ConflictCheck(userId, date, time, duration, fault)

SpecConflictFault == InitConflict /\ [][NextConflictFault]_vars

\* ------------------------------------------------------ slot generation
\* DateUtils.getDayOfWeek: the table of day names
Days ==
  <<"Sunday", "Monday", "Tuesday", "Wednesday", "Thursday", "Friday", "Saturday">>

\* days[new Date(date).getDay()]; dates are naive calendar days and day 0 is
\* a Sunday, so day 1 is a Monday and day 5 a Friday
GetDayOfWeek(date) == Days[(date % 7) + 1]

\* mutant: the minutes of the slot are dropped
FormatTimeHourOnly(currentTime) ==
  LET hours == currentTime \div 60
  IN <<hours \div 10, hours % 10, 0, 0>>

\* `${hours.toString().padStart(2,'0')}:${minutes.toString().padStart(2,'0')}`
\* with hours = Math.floor(currentTime / 60) and minutes = currentTime % 60,
\* for 0 <= currentTime < 100 * 60 (two digits each)
FormatTime(currentTime) ==
  LET hours == currentTime \div 60
      minutes == currentTime % 60
  IN <<hours \div 10, hours % 10, minutes \div 10, minutes % 10>>

\* mutant: a slot that ends exactly at endHour:00 is not emitted
LoopConditionStrict(currentTime, duration, endTime) ==
  currentTime + duration < endTime

\* the condition of the while loop of generateTimeSlots
LoopCondition(currentTime, duration, endTime) ==
  currentTime + duration <= endTime

\* the while loop run to its end; it has an end only for duration > 0
RECURSIVE SlotsFrom(_, _, _)
SlotsFrom(currentTime, duration, endTime) ==
  IF LoopCondition(currentTime, duration, endTime)
    THEN <<FormatTime(currentTime)>>
           \o SlotsFrom(currentTime + duration, duration, endTime)
    ELSE <<>>

\* DateUtils.generateTimeSlots as a function of its arguments (duration > 0)
GenerateTimeSlots(startHour, endHour, duration) ==
  SlotsFrom(startHour * 60, duration, endHour * 60)

\* ------------------------------------- generateTimeSlots, one iteration a step
\* Largest number of slots the loop may push in the model.
MaxSlots == 16

StartHours == {9, 16}
EndHours == {10, 17}
\* durations are not validated: any integer reaches the loop
LoopDurations == {-30, 0, 30, 50, 60, 90, 120, 480, 500}

\* the call: the locals are initialised
GenerateCall(startHour, endHour, duration) ==
  /\ slotsLoop.pc # "loop"
  /\ slotsLoop' =
       [ pc |-> "loop", startHour |-> startHour, endHour |-> endHour,
         duration |-> duration, currentTime |-> startHour * 60,
         endTime |-> endHour * 60, slots |-> <<>> ]
  /\ UNCHANGED <<appointments, nextId, userTherapists, last, calls, conflictCall,
                 therapists, query, moods, nextMoodId, users, sessions, nextConnId>>

\* one pass through the body of the while loop
SlotsLoopIterate ==
  /\ slotsLoop.pc = "loop"
  /\ LoopCondition(slotsLoop.currentTime, slotsLoop.duration, slotsLoop.endTime)
  /\ Len(slotsLoop.slots) < MaxSlots
  /\ slotsLoop' =
       [ slotsLoop EXCEPT !.slots = Append(@, FormatTime(slotsLoop.currentTime)),
                          !.currentTime = @ + slotsLoop.duration ]
  /\ UNCHANGED <<appointments, nextId, userTherapists, last, calls, conflictCall,
                 therapists, query, moods, nextMoodId, users, sessions, nextConnId>>

\* the loop condition is false: `return slots`
SlotsLoopReturn ==
  /\ slotsLoop.pc = "loop"
  /\ ~ LoopCondition(slotsLoop.currentTime, slotsLoop.duration, slotsLoop.endTime)
  /\ slotsLoop' = [slotsLoop EXCEPT !.pc = "done"]
  /\ UNCHANGED <<appointments, nextId, userTherapists, last, calls, conflictCall,
                 therapists, query, moods, nextMoodId, users, sessions, nextConnId>>

Generate ==
  \E startHour \in StartHours, endHour \in EndHours, duration \in LoopDurations :
    GenerateCall(startHour, endHour, duration)

NextGenerate == Generate \/ SlotsLoopIterate \/ SlotsLoopReturn

SpecGenerate == Init /\ [][NextGenerate]_vars

\* ------------------------------------------------------- getAvailableSlots
\* mutant: a cancelled appointment still removes its time from the result
GetAvailableSlotsCountsCancelled(thers, appts, therapistId, date, duration, fault) ==
  IF fault = "get" \/ therapistId \notin DOMAIN thers
    THEN <<>>
    ELSE IF GetDayOfWeek(date) \notin thers[therapistId].availability
      THEN <<>>
      ELSE IF fault = "apptRead"
        THEN <<>>
        ELSE LET allSlots == GenerateTimeSlots(9, 17, duration)
                 dateAppointments ==
                   {id \in DOMAIN appts : /\ appts[id].therapistId = therapistId
                                         /\ appts[id].date = date}
                 bookedTimes == {appts[id].time : id \in dateAppointments}
             IN SelectSeq(allSlots, LAMBDA slot : slot \notin bookedTimes)

\* mutant: the weekday of the date is not checked
GetAvailableSlotsAnyDay(thers, appts, therapistId, date, duration, fault) ==
  IF fault = "get" \/ therapistId \notin DOMAIN thers
    THEN <<>>
    ELSE IF fault = "apptRead"
      THEN <<>>
      ELSE LET allSlots == GenerateTimeSlots(9, 17, duration)
               dateAppointments ==
                 {id \in DOMAIN appts : /\ appts[id].therapistId = therapistId
                                       /\ appts[id].date = date
                                       /\ appts[id].status # "cancelled"}
               bookedTimes == {appts[id].time : id \in dateAppointments}
           IN SelectSeq(allSlots, LAMBDA slot : slot \notin bookedTimes)

\* mutant: a candidate is removed when its interval overlaps an appointment
GetAvailableSlotsByOverlap(thers, appts, therapistId, date, duration, fault) ==
  IF fault = "get" \/ therapistId \notin DOMAIN thers
    THEN <<>>
    ELSE IF GetDayOfWeek(date) \notin thers[therapistId].availability
      THEN <<>>
      ELSE IF fault = "apptRead"
        THEN <<>>
        ELSE LET allSlots == GenerateTimeSlots(9, 17, duration)
                 dateAppointments ==
                   {id \in DOMAIN appts : /\ appts[id].therapistId = therapistId
                                         /\ appts[id].date = date
                                         /\ appts[id].status # "cancelled"}
             IN SelectSeq(allSlots, LAMBDA slot :
                  \A id \in dateAppointments :
                    \/ ParseTime(slot) + duration <= ParseTime(appts[id].time)
                    \/ ParseTime(appts[id].time) + appts[id].duration <= ParseTime(slot))

\* AppointmentManager.getAvailableSlots; a failed request of either store
\* ("get": the therapist record, "apptRead": the therapist's appointments) is
\* caught and answered with the empty list
GetAvailableSlots(thers, appts, therapistId, date, duration, fault) ==
  IF fault = "get" \/ therapistId \notin DOMAIN thers
    THEN <<>>
    ELSE IF GetDayOfWeek(date) \notin thers[therapistId].availability
      THEN <<>>
      ELSE IF fault = "apptRead"
        THEN <<>>
        ELSE LET allSlots == GenerateTimeSlots(9, 17, duration)
                 dateAppointments ==
                   {id \in DOMAIN appts : /\ appts[id].therapistId = therapistId
                                         /\ appts[id].date = date
                                         /\ appts[id].status # "cancelled"}
                 bookedTimes == {appts[id].time : id \in dateAppointments}
             IN SelectSeq(allSlots, LAMBDA slot : slot \notin bookedTimes)

\* appointment records a store may hold when the slots are asked for
SlotRecords ==
  [ userId : {"u1"}, therapistId : Therapists, date : {1, 5},
    time : {T0900, T0950}, duration : {50}, status : Statuses, notes : {""} ]

\* stores of at most MaxAppts such records that one-at-a-time calls produce:
\* two 'confirmed' appointments never share (therapist, date, time)
SlotStores ==
  { st \in UNION { [1..n -> SlotRecords] : n \in 0..MaxAppts } :
      \A i, j \in DOMAIN st :
        ( /\ i # j
          /\ st[i].status = "confirmed"
          /\ st[j].status = "confirmed" )
        => <<st[i].therapistId, st[i].date, st[i].time>>
             # <<st[j].therapistId, st[j].date, st[j].time>> }

\* "t9" is the id of no therapist record
SlotTherapists == Therapists \cup {"t9"}
\* a Monday and a Friday
SlotDates == {1, 5}
SlotDurations == {30, 50}
SlotFaults == {"none", "get", "apptRead"}

InitSlots ==
  /\ appointments \in SlotStores
  /\ nextId = Len(appointments) + 1
  /\ userTherapists = InitialConnections
  /\ last = NoResult
  /\ calls = [p \in Procs |-> Idle]
  /\ conflictCall = NoConflictCall
  /\ therapists = SampleTherapists
  /\ query = NoQuery
  /\ slotsLoop = NoLoop
  /\ moods = <<>>
  /\ nextMoodId = 1
  /\ users = InitialUsers
  /\ sessions = {}
  /\ nextConnId = Cardinality(InitialConnections) + 1

AvailableSlots(therapistId, date, duration, fault) ==
  /\ query' =
       [ op |-> "getAvailableSlots",
         args |-> [ therapistId |-> therapistId, date |-> date,
                    duration |-> duration, fault |-> fault ],
         result |-> GetAvailableSlots(therapists, appointments, therapistId, date,
                                      duration, fault) ]
  /\ UNCHANGED <<appointments, nextId, userTherapists, last, calls, conflictCall,
                 therapists, slotsLoop, moods, nextMoodId, users, sessions, nextConnId>>

\* The query writes to no store, so a second query would see the store the
\* first one saw: one query per store is asked.
NextSlots ==
  \E therapistId \in SlotTherapists, date \in SlotDates,
     duration \in SlotDurations, fault \in SlotFaults :
    /\ query.op = "none"
    /\ AvailableSlots(therapistId, date, duration, fault)

SpecSlots == InitSlots /\ [][NextSlots]_vars

\* ---------------------------------------- upcoming, past and cancelled lists
\* new Date(apt.date + ' ' + apt.time) of a stored appointment
StartOf(appts, id) == DateTime(appts[id].date, appts[id].time)

\* Array.prototype.sort with (a, b) => dateA - dateB on the list getByIndex
\* returns in key order: ascending start, equal starts in id order (the sort
\* is stable)
RECURSIVE SortAscending(_, _)
SortAscending(appts, ids) ==
  IF ids = {}
    THEN <<>>
    ELSE LET first == CHOOSE i \in ids : \A j \in ids :
                        \/ StartOf(appts, i) < StartOf(appts, j)
                        \/ StartOf(appts, i) = StartOf(appts, j) /\ i <= j
         IN <<first>> \o SortAscending(appts, ids \ {first})

\* the same with (a, b) => dateB - dateA: descending start, equal starts in
\* id order
RECURSIVE SortDescending(_, _)
SortDescending(appts, ids) ==
  IF ids = {}
    THEN <<>>
    ELSE LET first == CHOOSE i \in ids : \A j \in ids :
                        \/ StartOf(appts, i) > StartOf(appts, j)
                        \/ StartOf(appts, i) = StartOf(appts, j) /\ i <= j
         IN <<first>> \o SortDescending(appts, ids \ {first})

\* mutant: the upcoming list is sorted like the other two, latest first
GetUpcomingAppointmentsDescending(appts, userId, now, fault) ==
  IF fault = "apptRead"
    THEN <<>>
    ELSE SortDescending(appts,
           {id \in DOMAIN appts : /\ appts[id].userId = userId
                                 /\ StartOf(appts, id) > now
                                 /\ appts[id].status = "confirmed"})

\* AppointmentManager.getUpcomingAppointments: the ids of the records it
\* returns, in order; `now` is the clock reading of new Date()
GetUpcomingAppointments(appts, userId, now, fault) ==
  IF fault = "apptRead"
    THEN <<>>
    ELSE SortAscending(appts,
           {id \in DOMAIN appts : /\ appts[id].userId = userId
                                 /\ StartOf(appts, id) > now
                                 /\ appts[id].status = "confirmed"})

\* mutant: only the date decides what is past
GetPastAppointmentsByDateOnly(appts, userId, now, fault) ==
  IF fault = "apptRead"
    THEN <<>>
    ELSE SortDescending(appts,
           {id \in DOMAIN appts : /\ appts[id].userId = userId
                                 /\ StartOf(appts, id) < now})

\* AppointmentManager.getPastAppointments
GetPastAppointments(appts, userId, now, fault) ==
  IF fault = "apptRead"
    THEN <<>>
    ELSE SortDescending(appts,
           {id \in DOMAIN appts : /\ appts[id].userId = userId
                                 /\ \/ StartOf(appts, id) < now
                                    \/ appts[id].status = "completed"})

\* AppointmentManager.getCancelledAppointments
GetCancelledAppointments(appts, userId, fault) ==
  IF fault = "apptRead"
    THEN <<>>
    ELSE SortDescending(appts,
           {id \in DOMAIN appts : /\ appts[id].userId = userId
                                 /\ appts[id].status = "cancelled"})

\* appointment records a store may hold when the lists are asked for
ListRecords ==
  [ userId : Users, therapistId : {"t1"}, date : {1, 2}, time : {T0900, T0950},
    duration : {50}, status : Statuses, notes : {""} ]

\* stores of at most MaxAppts such records that one-at-a-time calls produce:
\* two 'confirmed' appointments never share (therapist, date, time)
ListStores ==
  { st \in UNION { [1..n -> ListRecords] : n \in 0..MaxAppts } :
      \A i, j \in DOMAIN st :
        ( /\ i # j
          /\ st[i].status = "confirmed"
          /\ st[j].status = "confirmed" )
        => <<st[i].therapistId, st[i].date, st[i].time>>
             # <<st[j].therapistId, st[j].date, st[j].time>> }

\* clock readings: 09:00 of day 1 to the minute, 20 minutes later, and day 3
ListNows == {DateTime(1, T0900), DateTime(1, T0900) + 20, DateTime(3, T0900)}

InitLists ==
  /\ appointments \in ListStores
  /\ nextId = Len(appointments) + 1
  /\ userTherapists = InitialConnections
  /\ last = NoResult
  /\ calls = [p \in Procs |-> Idle]
  /\ conflictCall = NoConflictCall
  /\ therapists = SampleTherapists
  /\ query = NoQuery
  /\ slotsLoop = NoLoop
  /\ moods = <<>>
  /\ nextMoodId = 1
  /\ users = InitialUsers
  /\ sessions = {}
  /\ nextConnId = Cardinality(InitialConnections) + 1

\* none of the three lists has been asked for
NoLists == [asked |-> {}, upcoming |-> <<>>, past |-> <<>>, cancelled |-> <<>>]

\* the lists already returned to this user at this clock reading
ListsSoFar(userId, now) ==
  IF query.op = "lists" /\ query.args = [userId |-> userId, now |-> now]
    THEN query.result
    ELSE NoLists

UpcomingAppointments(userId, now) ==
  /\ query' =
       [ op |-> "lists", args |-> [userId |-> userId, now |-> now],
         result |-> [ ListsSoFar(userId, now) EXCEPT
                        !.asked = @ \cup {"upcoming"},
                        !.upcoming = GetUpcomingAppointments(appointments, userId, now, "none") ] ]
  /\ UNCHANGED <<appointments, nextId, userTherapists, last, calls, conflictCall,
                 therapists, slotsLoop, moods, nextMoodId, users, sessions, nextConnId>>

PastAppointments(userId, now) ==
  /\ query' =
       [ op |-> "lists", args |-> [userId |-> userId, now |-> now],
         result |-> [ ListsSoFar(userId, now) EXCEPT
                        !.asked = @ \cup {"past"},
                        !.past = GetPastAppointments(appointments, userId, now, "none") ] ]
  /\ UNCHANGED <<appointments, nextId, userTherapists, last, calls, conflictCall,
                 therapists, slotsLoop, moods, nextMoodId, users, sessions, nextConnId>>

CancelledAppointments(userId, now) ==
  /\ query' =
       [ op |-> "lists", args |-> [userId |-> userId, now |-> now],
         result |-> [ ListsSoFar(userId, now) EXCEPT
                        !.asked = @ \cup {"cancelled"},
                        !.cancelled = GetCancelledAppointments(appointments, userId, "none") ] ]
  /\ UNCHANGED <<appointments, nextId, userTherapists, last, calls, conflictCall,
                 therapists, slotsLoop, moods, nextMoodId, users, sessions, nextConnId>>

\* The lists write to no store.  The three are asked for one user at one
\* clock reading, in any order.
NextLists ==
  \E userId \in Users, now \in ListNows :
    /\ query.op = "none" \/ query.args = [userId |-> userId, now |-> now]
    /\ \/ UpcomingAppointments(userId, now)
       \/ PastAppointments(userId, now)
       \/ CancelledAppointments(userId, now)

SpecLists == InitLists /\ [][NextLists]_vars

\* ------------------------------------------------------------ mood entries
\* A mood entry is [userId, mood, intensity, notes, date, timestamp]; the
\* timestamp is the clock reading of the last logMood that wrote the entry,
\* in minutes since day 0.  updatedAt is written and never read; it is left
\* out.

\* Largest number of mood entries ever added to the store.
MaxMoods == 2

\* MoodUtils.moodCategories: the names, in the order of the source
MoodCategories ==
  <<"Happy", "Sad", "Anxious", "Angry", "Calm", "Stressed", "Energetic",
    "Tired", "Hopeful", "Overwhelmed">>

\* MoodUtils.getMoodByName(name) is truthy
GetMoodByName(name) == \E i \in DOMAIN MoodCategories : MoodCategories[i] = name

\* MoodTracker.getMoodsByDate (ids of the entries it returns); it catches a
\* failed read itself and returns the empty list
GetMoodsByDate(mds, userId, date, fault) ==
  IF fault = "moodRead"
    THEN {}
    ELSE {id \in DOMAIN mds : mds[id].userId = userId /\ mds[id].date = date}

\* the first element of a list getByIndex returned: the smallest key
First(ids) == CHOOSE id \in ids : \A other \in ids : id <= other

\* mindspaceDB.delete
Delete(store, id) == [k \in DOMAIN store \ {id} |-> store[k]]

\* mutant: only the lower end of the intensity range is checked
LogMoodNoUpperLimit(userId, mood, intensity, notes, date, now, fault) ==
  /\ UNCHANGED <<appointments, nextId, userTherapists, calls, conflictCall,
                 therapists, query, slotsLoop, users, sessions, nextConnId>>
  /\ IF ~ GetMoodByName(mood)
       THEN /\ last' = Result("logMood", FALSE, "Invalid mood selected", 0, "none")
            /\ UNCHANGED <<moods, nextMoodId>>
       ELSE IF intensity < 1
         THEN /\ last' = Result("logMood", FALSE, "Intensity must be between 1 and 10", 0, "none")
              /\ UNCHANGED <<moods, nextMoodId>>
         ELSE LET existingEntries == GetMoodsByDate(moods, userId, date, fault) IN
           IF existingEntries # {}
             THEN LET existing == First(existingEntries) IN
               IF fault = "update"
                 THEN /\ last' = Result("logMood", FALSE, "Failed to log mood", 0, "none")
                      /\ UNCHANGED <<moods, nextMoodId>>
                 ELSE /\ moods' = Update(moods, existing,
                           [moods[existing] EXCEPT !.mood = mood, !.intensity = intensity,
                                                   !.notes = notes, !.timestamp = now])
                      /\ UNCHANGED nextMoodId
                      /\ last' = Result("logMood", TRUE, "Mood entry updated", existing, "none")
             ELSE IF fault = "add"
               THEN /\ last' = Result("logMood", FALSE, "Failed to log mood", 0, "none")
                    /\ UNCHANGED <<moods, nextMoodId>>
               ELSE /\ nextMoodId <= MaxMoods
                    /\ moods' = Add(moods, nextMoodId,
                         [ userId |-> userId, mood |-> mood, intensity |-> intensity,
                           notes |-> notes, date |-> date, timestamp |-> now ])
                    /\ nextMoodId' = nextMoodId + 1
                    /\ last' = Result("logMood", TRUE, "Mood logged successfully", nextMoodId, "none")

\* mutant: every log inserts a new entry
LogMoodAlwaysInserts(userId, mood, intensity, notes, date, now, fault) ==
  /\ UNCHANGED <<appointments, nextId, userTherapists, calls, conflictCall,
                 therapists, query, slotsLoop, users, sessions, nextConnId>>
  /\ IF ~ GetMoodByName(mood)
       THEN /\ last' = Result("logMood", FALSE, "Invalid mood selected", 0, "none")
            /\ UNCHANGED <<moods, nextMoodId>>
       ELSE IF intensity < 1 \/ intensity > 10
         THEN /\ last' = Result("logMood", FALSE, "Intensity must be between 1 and 10", 0, "none")
              /\ UNCHANGED <<moods, nextMoodId>>
         ELSE IF fault = "add"
           THEN /\ last' = Result("logMood", FALSE, "Failed to log mood", 0, "none")
                /\ UNCHANGED <<moods, nextMoodId>>
           ELSE /\ nextMoodId <= MaxMoods
                /\ moods' = Add(moods, nextMoodId,
                     [ userId |-> userId, mood |-> mood, intensity |-> intensity,
                       notes |-> notes, date |-> date, timestamp |-> now ])
                /\ nextMoodId' = nextMoodId + 1
                /\ last' = Result("logMood", TRUE, "Mood logged successfully", nextMoodId, "none")

\* MoodTracker.logMood; `now` is the clock reading of new Date()
LogMood(userId, mood, intensity, notes, date, now, fault) ==
  /\ UNCHANGED <<appointments, nextId, userTherapists, calls, conflictCall,
                 therapists, query, slotsLoop, users, sessions, nextConnId>>
  /\ IF ~ GetMoodByName(mood)
       THEN /\ last' = Result("logMood", FALSE, "Invalid mood selected", 0, "none")
            /\ UNCHANGED <<moods, nextMoodId>>
       ELSE IF intensity < 1 \/ intensity > 10
         THEN /\ last' = Result("logMood", FALSE, "Intensity must be between 1 and 10", 0, "none")
              /\ UNCHANGED <<moods, nextMoodId>>
         ELSE LET existingEntries == GetMoodsByDate(moods, userId, date, fault) IN
           IF existingEntries # {}
             THEN LET existing == First(existingEntries) IN
               IF fault = "update"
                 THEN /\ last' = Result("logMood", FALSE, "Failed to log mood", 0, "none")
                      /\ UNCHANGED <<moods, nextMoodId>>
                 ELSE /\ moods' = Update(moods, existing,
                           [moods[existing] EXCEPT !.mood = mood, !.intensity = intensity,
                                                   !.notes = notes, !.timestamp = now])
                      /\ UNCHANGED nextMoodId
                      /\ last' = Result("logMood", TRUE, "Mood entry updated", existing, "none")
             ELSE IF fault = "add"
               THEN /\ last' = Result("logMood", FALSE, "Failed to log mood", 0, "none")
                    /\ UNCHANGED <<moods, nextMoodId>>
               ELSE /\ nextMoodId <= MaxMoods
                    /\ moods' = Add(moods, nextMoodId,
                         [ userId |-> userId, mood |-> mood, intensity |-> intensity,
                           notes |-> notes, date |-> date, timestamp |-> now ])
                    /\ nextMoodId' = nextMoodId + 1
                    /\ last' = Result("logMood", TRUE, "Mood logged successfully", nextMoodId, "none")

\* mutant: a supplied mood is written before the intensity is checked
UpdateMoodWritesMoodFirst(moodId, updates, fault) ==
  /\ UNCHANGED <<appointments, nextId, userTherapists, calls, conflictCall,
                 therapists, query, slotsLoop, nextMoodId, users, sessions, nextConnId>>
  /\ IF fault = "get"
       THEN /\ last' = Result("updateMood", FALSE, "Failed to update mood", 0, "none")
            /\ UNCHANGED moods
       ELSE IF moodId \notin DOMAIN moods
         THEN /\ last' = Result("updateMood", FALSE, "Mood entry not found", 0, "none")
              /\ UNCHANGED moods
         ELSE IF updates.mood # "" /\ ~ GetMoodByName(updates.mood)
           THEN /\ last' = Result("updateMood", FALSE, "Invalid mood", 0, "none")
                /\ UNCHANGED moods
           ELSE LET withMood == IF updates.mood # ""
                                  THEN [moods[moodId] EXCEPT !.mood = updates.mood]
                                  ELSE moods[moodId]
                IN IF "intensity" \in DOMAIN updates
                        /\ (updates.intensity < 1 \/ updates.intensity > 10)
                     THEN /\ last' = Result("updateMood", FALSE, "Intensity must be between 1 and 10", 0, "none")
                          /\ moods' = Update(moods, moodId, withMood)
                     ELSE IF fault = "update"
                       THEN /\ last' = Result("updateMood", FALSE, "Failed to update mood", 0, "none")
                            /\ UNCHANGED moods
                       ELSE /\ moods' = Update(moods, moodId,
                                 IF "intensity" \in DOMAIN updates
                                   THEN [withMood EXCEPT !.intensity = updates.intensity]
                                   ELSE withMood)
                            /\ last' = Result("updateMood", TRUE, "Mood updated successfully", 0, "none")

\* MoodTracker.updateMood.  `updates` is a record: its field `mood` is ""
\* when no mood is supplied (falsy), and it has a field `intensity` only
\* when an intensity is supplied (!== undefined).  No notes are supplied.
UpdateMood(moodId, updates, fault) ==
  /\ UNCHANGED <<appointments, nextId, userTherapists, calls, conflictCall,
                 therapists, query, slotsLoop, nextMoodId, users, sessions, nextConnId>>
  /\ IF fault = "get"
       THEN /\ last' = Result("updateMood", FALSE, "Failed to update mood", 0, "none")
            /\ UNCHANGED moods
       ELSE IF moodId \notin DOMAIN moods
         THEN /\ last' = Result("updateMood", FALSE, "Mood entry not found", 0, "none")
              /\ UNCHANGED moods
         ELSE IF updates.mood # "" /\ ~ GetMoodByName(updates.mood)
           THEN /\ last' = Result("updateMood", FALSE, "Invalid mood", 0, "none")
                /\ UNCHANGED moods
           ELSE LET withMood == IF updates.mood # ""
                                  THEN [moods[moodId] EXCEPT !.mood = updates.mood]
                                  ELSE moods[moodId]
                IN IF "intensity" \in DOMAIN updates
                        /\ (updates.intensity < 1 \/ updates.intensity > 10)
                     THEN /\ last' = Result("updateMood", FALSE, "Intensity must be between 1 and 10", 0, "none")
                          /\ UNCHANGED moods
                     ELSE IF fault = "update"
                       THEN /\ last' = Result("updateMood", FALSE, "Failed to update mood", 0, "none")
                            /\ UNCHANGED moods
                       ELSE /\ moods' = Update(moods, moodId,
                                 IF "intensity" \in DOMAIN updates
                                   THEN [withMood EXCEPT !.intensity = updates.intensity]
                                   ELSE withMood)
                            /\ last' = Result("updateMood", TRUE, "Mood updated successfully", 0, "none")

\* MoodTracker.deleteMood
DeleteMood(moodId, fault) ==
  /\ UNCHANGED <<appointments, nextId, userTherapists, calls, conflictCall,
                 therapists, query, slotsLoop, nextMoodId, users, sessions, nextConnId>>
  /\ IF fault = "get"
       THEN /\ last' = Result("deleteMood", FALSE, "Failed to delete mood", 0, "none")
            /\ UNCHANGED moods
       ELSE IF moodId \notin DOMAIN moods
         THEN /\ last' = Result("deleteMood", FALSE, "Mood entry not found", 0, "none")
              /\ UNCHANGED moods
         ELSE IF fault = "delete"
           THEN /\ last' = Result("deleteMood", FALSE, "Failed to delete mood", 0, "none")
                /\ UNCHANGED moods
           ELSE /\ moods' = Delete(moods, moodId)
                /\ last' = Result("deleteMood", TRUE, "Mood entry deleted", 0, "none")

\* ----------------------------------- mood calls, one at a time (one writer)
\* Every store request succeeds in this specification.
\* "Bored" is no category; 0 and 11 are outside the intensity range
MoodNames == {"Happy", "Sad", "Bored"}
Intensities == {0, 1, 10, 11}
MoodDates == {1, 2}
MoodNotes == {""}
\* clock readings of the calls
MoodNows == {DateTime(2, T0900)}
\* ids of entries stored now or deleted earlier
MoodIds == 1..MaxMoods
MoodUpdates ==
  [mood : {"", "Sad", "Bored"}]
    \cup [mood : {"", "Sad", "Bored"}, intensity : Intensities]

NextMood ==
  \/ \E userId \in Users, mood \in MoodNames, intensity \in Intensities,
        notes \in MoodNotes, date \in MoodDates, now \in MoodNows :
       LogMood(userId, mood, intensity, notes, date, now, "none")
  \/ \E moodId \in MoodIds, updates \in MoodUpdates :
       UpdateMood(moodId, updates, "none")
  \/ \E moodId \in MoodIds :
       DeleteMood(moodId, "none")

SpecMood == Init /\ [][NextMood]_vars

\* ------------------------------------------------------- mood analytics
\* Lists of mood entries are sequences of entry records.  A clock reading
\* `now` is in minutes since day 0; an entry's date string, read by
\* new Date(m.date), is the midnight that starts its day.

\* new Date(m.date) as an instant
DateInstant(date) == date * (24 * 60)

\* the calendar day of a clock reading (setHours(0, 0, 0, 0))
DayOf(now) == now \div (24 * 60)

\* moods.sort((a, b) => new Date(b.timestamp) - new Date(a.timestamp)):
\* latest timestamp first, equal timestamps in key order (a stable sort of
\* what getByIndex returns)
RECURSIVE SortByTimestamp(_, _)
SortByTimestamp(mds, ids) ==
  IF ids = {}
    THEN <<>>
    ELSE LET first == CHOOSE id \in ids :
                        \A other \in ids :
                          \/ mds[id].timestamp > mds[other].timestamp
                          \/ /\ mds[id].timestamp = mds[other].timestamp
                             /\ id <= other
         IN <<mds[first]>> \o SortByTimestamp(mds, ids \ {first})

\* MoodTracker.getMoodHistory; it catches a failed read and returns []
GetMoodHistory(mds, userId, fault) ==
  IF fault = "moodRead"
    THEN <<>>
    ELSE SortByTimestamp(mds, {id \in DOMAIN mds : mds[id].userId = userId})

\* moods.filter(m => new Date(m.date) >= cutoff)
RECURSIVE Since(_, _)
Since(entries, cutoff) ==
  IF entries = <<>>
    THEN <<>>
    ELSE (IF DateInstant(Head(entries).date) >= cutoff THEN <<Head(entries)>> ELSE <<>>)
           \o Since(Tail(entries), cutoff)

RECURSIVE SumIntensity(_)
SumIntensity(entries) ==
  IF entries = <<>> THEN 0 ELSE Head(entries).intensity + SumIntensity(Tail(entries))

\* MoodUtils.calculateAverage, in tenths: (sum / length).toFixed(1) rounds
\* to one decimal, a tie to the larger value.  For fewer than 20 entries a
\* tie is a quotient ending in .25 or .75, which a double holds exactly.
CalculateAverage(entries) ==
  IF Len(entries) = 0
    THEN 0
    ELSE (20 * SumIntensity(entries) + Len(entries)) \div (2 * Len(entries))

\* Array.prototype.slice(start, end) with start, end <= 0 counted from the
\* end of the list (end = 0 stands for an omitted end)
Slice(entries, start, end) ==
  LET from == IF Len(entries) + start < 0 THEN 0 ELSE Len(entries) + start
      to   == IF Len(entries) + end < 0 THEN 0 ELSE Len(entries) + end
  IN SubSeq(entries, from + 1, to)

\* mutant: an empty older window is compared as an average of 0
GetMoodTrendNoEmptyCheck(entries) ==
  IF Len(entries) < 2
    THEN "stable"
    ELSE LET recent == Slice(entries, -7, 0)
             older  == Slice(entries, -14, -7)
             diff   == CalculateAverage(recent) - CalculateAverage(older)
         IN IF diff > 5 THEN "improving"
            ELSE IF diff < -5 THEN "declining"
            ELSE "stable"

\* MoodUtils.getMoodTrend; the averages are in tenths, and so is 0.5
GetMoodTrend(entries) ==
  IF Len(entries) < 2
    THEN "stable"
    ELSE LET recent == Slice(entries, -7, 0)
             older  == Slice(entries, -14, -7)
             diff   == CalculateAverage(recent) - CalculateAverage(older)
         IN IF older = <<>> THEN "stable"
            ELSE IF diff > 5 THEN "improving"
            ELSE IF diff < -5 THEN "declining"
            ELSE "stable"

\* the dates of the entries, each once, latest first
RECURSIVE SortDates(_)
SortDates(dates) ==
  IF dates = {}
    THEN <<>>
    ELSE LET latest == CHOOSE d \in dates : \A other \in dates : d >= other
         IN <<latest>> \o SortDates(dates \ {latest})

\* the loop of calculateStreak over the sorted dates
RECURSIVE StreakFrom(_, _, _)
StreakFrom(dates, currentDate, streak) ==
  IF dates = <<>>
    THEN streak
    ELSE IF currentDate - Head(dates) = streak
      THEN StreakFrom(Tail(dates), currentDate, streak + 1)
      ELSE streak

\* MoodTracker.calculateStreak
CalculateStreak(entries, now) ==
  IF Len(entries) = 0
    THEN 0
    ELSE StreakFrom(SortDates({entries[i].date : i \in DOMAIN entries}), DayOf(now), 0)

\* MoodTracker.getMoodStats
GetMoodStats(mds, userId, now, fault) ==
  LET history == GetMoodHistory(mds, userId, fault)
  IN IF Len(history) = 0
       THEN [ totalEntries |-> 0, currentStreak |-> 0, avgIntensity |-> 0,
              trend |-> "stable" ]
       ELSE [ totalEntries |-> Len(history),
              currentStreak |-> CalculateStreak(history, now),
              avgIntensity |-> CalculateAverage(history),
              trend |-> GetMoodTrend(history) ]

\* Object.keys(moodCounts): the moods of the entries in the order in which
\* the forEach first meets them
RECURSIVE MoodKeys(_)
MoodKeys(entries) ==
  IF entries = <<>>
    THEN <<>>
    ELSE LET before == MoodKeys(SubSeq(entries, 1, Len(entries) - 1))
             mood   == entries[Len(entries)].mood
         IN IF \E i \in DOMAIN before : before[i] = mood
              THEN before
              ELSE Append(before, mood)

\* moodCounts[name]
MoodCount(entries, name) ==
  Cardinality({i \in DOMAIN entries : entries[i].mood = name})

\* mutant: on equal counts the accumulated key is kept
RECURSIVE ReduceKeepsFirst(_, _, _)
ReduceKeepsFirst(keys, a, entries) ==
  IF keys = <<>>
    THEN a
    ELSE ReduceKeepsFirst(Tail(keys),
                IF MoodCount(entries, a) >= MoodCount(entries, Head(keys)) THEN a ELSE Head(keys),
                entries)

\* keys.reduce((a, b) => moodCounts[a] > moodCounts[b] ? a : b), from the
\* accumulator a over the remaining keys
RECURSIVE Reduce(_, _, _)
Reduce(keys, a, entries) ==
  IF keys = <<>>
    THEN a
    ELSE Reduce(Tail(keys),
                IF MoodCount(entries, a) > MoodCount(entries, Head(keys)) THEN a ELSE Head(keys),
                entries)

\* the most common mood of a list that is not empty
MostCommon(entries) ==
  LET keys == MoodKeys(entries) IN Reduce(Tail(keys), Head(keys), entries)

\* mutant: praise for an improving trend comes before the count of the week
RecommendationPraiseFirst(trend, avgIntensity, weekEntries) ==
  IF trend = "declining" /\ avgIntensity < 50
    THEN "Your mood has been declining. Consider scheduling a session with your therapist."
    ELSE IF trend = "improving"
      THEN "Great! Your mood is improving. Keep up the good work!"
      ELSE IF weekEntries < 3
        THEN "Try to log your mood more regularly for better insights."
        ELSE IF avgIntensity > 70
          THEN "You're doing well! Continue your current practices."
          ELSE "Remember to practice self-care and reach out to your support system."

\* the recommendation of getMoodInsights; avgIntensity is in tenths
Recommendation(trend, avgIntensity, weekEntries) ==
  IF trend = "declining" /\ avgIntensity < 50
    THEN "Your mood has been declining. Consider scheduling a session with your therapist."
    ELSE IF weekEntries < 3
      THEN "Try to log your mood more regularly for better insights."
      ELSE IF trend = "improving"
        THEN "Great! Your mood is improving. Keep up the good work!"
        ELSE IF avgIntensity > 70
          THEN "You're doing well! Continue your current practices."
          ELSE "Remember to practice self-care and reach out to your support system."

\* what a query returns for null
Null == [null |-> TRUE]

\* MoodTracker.getMoodInsights; weekAgo keeps the time of day of the clock
GetMoodInsights(mds, userId, now, fault) ==
  LET history     == GetMoodHistory(mds, userId, fault)
      weekAgo     == now - 7 * (24 * 60)
      weekEntries == Len(Since(history, weekAgo))
  IN IF Len(history) = 0
       THEN Null
       ELSE [ mostCommon |-> [ name |-> MostCommon(history),
                               count |-> MoodCount(history, MostCommon(history)) ],
              avgIntensity |-> CalculateAverage(history),
              trend |-> GetMoodTrend(history),
              weekEntries |-> weekEntries,
              totalMoods |-> Len(history),
              recommendation |-> Recommendation(GetMoodTrend(history),
                                                CalculateAverage(history), weekEntries) ]

\* mutant: only the moods that occur are counted
GetMoodDistributionOfSeen(mds, userId, fault) ==
  LET history == GetMoodHistory(mds, userId, fault)
  IN [ name \in {history[i].mood : i \in DOMAIN history}
         |-> MoodCount(history, name) ]

\* MoodTracker.getMoodDistribution: a count per category name.  With a
\* failed read the history is [] and every count stays 0.
GetMoodDistribution(mds, userId, fault) ==
  LET history == GetMoodHistory(mds, userId, fault)
  IN [ name \in {MoodCategories[i] : i \in DOMAIN MoodCategories}
         |-> MoodCount(history, name) ]

\* the records of getMoodIntensityOverTime, earliest date first; the average
\* of a day is kept as the pair <<sum, number of entries>>
RECURSIVE DailyAverages(_, _)
DailyAverages(entries, dates) ==
  IF dates = {}
    THEN <<>>
    ELSE LET earliest == CHOOSE d \in dates : \A other \in dates : d <= other
             ofDay    == SelectSeq(entries, LAMBDA m : m.date = earliest)
         IN <<[ date |-> earliest,
                avgIntensity |-> <<SumIntensity(ofDay), Len(ofDay)>> ]>>
              \o DailyAverages(entries, dates \ {earliest})

\* MoodTracker.getMoodIntensityOverTime; cutoffDate keeps the time of day
GetMoodIntensityOverTime(mds, userId, days, now, fault) ==
  LET history     == GetMoodHistory(mds, userId, fault)
      cutoffDate  == now - days * (24 * 60)
      recentMoods == Since(history, cutoffDate)
  IN DailyAverages(recentMoods, {recentMoods[i].date : i \in DOMAIN recentMoods})

\* MoodTracker.getWeeklySummary; mostCommon is the name of the category, or
\* "null"
GetWeeklySummary(mds, userId, now, fault) ==
  LET history   == GetMoodHistory(mds, userId, fault)
      weekAgo   == now - 7 * (24 * 60)
      weekMoods == Since(history, weekAgo)
  IN IF Len(weekMoods) = 0
       THEN [ entries |-> 0, avgIntensity |-> 0, mostCommon |-> "null",
              trend |-> "stable" ]
       ELSE [ entries |-> Len(weekMoods),
              avgIntensity |-> CalculateAverage(weekMoods),
              mostCommon |-> MostCommon(weekMoods),
              trend |-> GetMoodTrend(history) ]

\* MoodTracker.getMonthlySummary; monthLength is the number of days from the
\* same day of the previous month (setMonth(getMonth() - 1)) to today
GetMonthlySummary(mds, userId, now, monthLength, fault) ==
  LET history    == GetMoodHistory(mds, userId, fault)
      monthAgo   == now - monthLength * (24 * 60)
      monthMoods == Since(history, monthAgo)
  IN IF Len(monthMoods) = 0
       THEN [ entries |-> 0, avgIntensity |-> 0, mostCommon |-> "null",
              distribution |-> <<>> ]
       ELSE [ entries |-> Len(monthMoods),
              avgIntensity |-> CalculateAverage(monthMoods),
              mostCommon |-> MostCommon(monthMoods),
              distribution |-> [ name \in {monthMoods[i].mood : i \in DOMAIN monthMoods}
                                   |-> MoodCount(monthMoods, name) ] ]

\* ------------------------------------------- mood queries on a given store
\* Every store request succeeds in this specification.

\* the calendar day of the clock readings
Today == 30

\* the clock at midnight and later in the day
StatNows == {DateInstant(Today), DateInstant(Today) + ParseTime(T0949)}

\* dates of a user's entries, as days after Today: tomorrow, today,
\* yesterday, three days ago, a week ago
DayOffsets == {1, 0, -1, -3, -7}

\* Stores with entries of u1 on some of the dates, each Happy or Sad with
\* intensity 2 or 8 and logged on its date (an entry dated tomorrow is
\* logged today, after today's), and one entry of u2.  Keys follow the
\* order of logging.
DayStores ==
  { LET dated(id) == CHOOSE o \in DOMAIN f : Cardinality({p \in DOMAIN f : p <= o}) = id
        n         == Cardinality(DOMAIN f)
    IN [ id \in 1..(n + 1) |->
           IF id = n + 1
             THEN [ userId |-> "u2", mood |-> "Tired", intensity |-> 5, notes |-> "",
                    date |-> Today, timestamp |-> DateInstant(Today) ]
             ELSE [ userId |-> "u1", mood |-> f[dated(id)][1], intensity |-> f[dated(id)][2],
                    notes |-> "", date |-> Today + dated(id),
                    timestamp |-> DateInstant(IF dated(id) > 0 THEN Today ELSE Today + dated(id)) ] ]
    : f \in UNION { [S -> {"Happy", "Sad"} \X {2, 8}] : S \in SUBSET DayOffsets } }

\* Stores of u1 with one entry a day on consecutive days, the last of them
\* 0 or 10 days before Today: 0, 1, 7 or 8 entries of one intensity, then
\* 1, 6 or 7 entries of another; b is <<number, intensity, number,
\* intensity, days before Today>>.
BlockStores ==
  { [ id \in 1..(b[1] + b[3]) |->
        [ userId |-> "u1", mood |-> "Calm",
          intensity |-> IF id <= b[1] THEN b[2] ELSE b[4], notes |-> "",
          date |-> Today - b[5] - (b[1] + b[3] - id),
          timestamp |-> DateInstant(Today - b[5] - (b[1] + b[3] - id)) ] ]
    : b \in {0, 1, 7, 8} \X {2, 4, 8} \X {1, 6, 7} \X {2, 4, 8} \X {0, 10} }

\* the days argument of getMoodIntensityOverTime
WindowDays == {1, 7}

\* days from the same day of the previous month to today: the fewest and
\* the most
MonthLengths == {28, 31}

InitStats ==
  /\ appointments = <<>>
  /\ nextId = 1
  /\ userTherapists = InitialConnections
  /\ last = NoResult
  /\ calls = [p \in Procs |-> Idle]
  /\ conflictCall = NoConflictCall
  /\ therapists = SampleTherapists
  /\ query = NoQuery
  /\ slotsLoop = NoLoop
  /\ moods \in DayStores \cup BlockStores
  /\ nextMoodId = Len(moods) + 1
  /\ users = InitialUsers
  /\ sessions = {}
  /\ nextConnId = Cardinality(InitialConnections) + 1

MoodStats(userId, now) ==
  /\ query' = [ op |-> "getMoodStats", args |-> [userId |-> userId, now |-> now],
                result |-> GetMoodStats(moods, userId, now, "none") ]
  /\ UNCHANGED <<appointments, nextId, userTherapists, last, calls, conflictCall,
                 therapists, slotsLoop, moods, nextMoodId, users, sessions, nextConnId>>

MoodInsights(userId, now) ==
  /\ query' = [ op |-> "getMoodInsights", args |-> [userId |-> userId, now |-> now],
                result |-> GetMoodInsights(moods, userId, now, "none") ]
  /\ UNCHANGED <<appointments, nextId, userTherapists, last, calls, conflictCall,
                 therapists, slotsLoop, moods, nextMoodId, users, sessions, nextConnId>>

MoodDistribution(userId) ==
  /\ query' = [ op |-> "getMoodDistribution", args |-> [userId |-> userId],
                result |-> GetMoodDistribution(moods, userId, "none") ]
  /\ UNCHANGED <<appointments, nextId, userTherapists, last, calls, conflictCall,
                 therapists, slotsLoop, moods, nextMoodId, users, sessions, nextConnId>>

MoodIntensityOverTime(userId, days, now) ==
  /\ query' = [ op |-> "getMoodIntensityOverTime",
                args |-> [userId |-> userId, days |-> days, now |-> now],
                result |-> GetMoodIntensityOverTime(moods, userId, days, now, "none") ]
  /\ UNCHANGED <<appointments, nextId, userTherapists, last, calls, conflictCall,
                 therapists, slotsLoop, moods, nextMoodId, users, sessions, nextConnId>>

WeeklySummary(userId, now) ==
  /\ query' = [ op |-> "getWeeklySummary", args |-> [userId |-> userId, now |-> now],
                result |-> GetWeeklySummary(moods, userId, now, "none") ]
  /\ UNCHANGED <<appointments, nextId, userTherapists, last, calls, conflictCall,
                 therapists, slotsLoop, moods, nextMoodId, users, sessions, nextConnId>>

MonthlySummary(userId, now, monthLength) ==
  /\ query' = [ op |-> "getMonthlySummary",
                args |-> [userId |-> userId, now |-> now, monthLength |-> monthLength],
                result |-> GetMonthlySummary(moods, userId, now, monthLength, "none") ]
  /\ UNCHANGED <<appointments, nextId, userTherapists, last, calls, conflictCall,
                 therapists, slotsLoop, moods, nextMoodId, users, sessions, nextConnId>>

\* The queries write to no store, so a second query would see the store the
\* first one saw: one query per store is asked.
NextStats ==
  \/ \E userId \in Users, now \in StatNows :
       query.op = "none" /\ MoodStats(userId, now)
  \/ \E userId \in Users, now \in StatNows :
       query.op = "none" /\ MoodInsights(userId, now)
  \/ \E userId \in Users :
       query.op = "none" /\ MoodDistribution(userId)
  \/ \E userId \in Users, days \in WindowDays, now \in StatNows :
       query.op = "none" /\ MoodIntensityOverTime(userId, days, now)
  \/ \E userId \in Users, now \in StatNows :
       query.op = "none" /\ WeeklySummary(userId, now)
  \/ \E userId \in Users, now \in StatNows, monthLength \in MonthLengths :
       query.op = "none" /\ MonthlySummary(userId, now, monthLength)

SpecStats == InitStats /\ [][NextStats]_vars

\* --------------------------------------- calls whose store reads may fail
\* One call at a time; the connection lookup or the appointment lookup of a
\* bookAppointment call, or the lookup of the entries of a logMood call, may
\* be refused by the store.
NextFault ==
  \/ \E userId \in Users, therapistId \in Therapists, slot \in Slots,
        duration \in Durations, notes \in BookNotes,
        fault \in {"none", "connRead", "apptRead"} :
       BookAppointment(userId, therapistId, slot[1], slot[2], duration, notes, fault)
  \/ \E userId \in {"u1"}, mood \in {"Happy", "Sad"}, intensity \in {5},
        notes \in MoodNotes, date \in MoodDates, now \in MoodNows,
        fault \in {"none", "moodRead"} :
       LogMood(userId, mood, intensity, notes, date, now, fault)

SpecFault == Init /\ [][NextFault]_vars

\* ------------------------------------------------ interleaved logMood calls
\* logMood awaits once before it writes: the lookup of getMoodsByDate.  Each
\* caller makes one call; calls[p] holds the arguments, the entries the
\* lookup returned (copies, with their keys) and the result.

\* the call is made, its arguments are checked and its lookup answers
LogMoodLookup(p, userId, mood, intensity, notes, date, now) ==
  /\ calls[p].pc = "idle"
  /\ LET call == [ pc |-> "done", userId |-> userId, mood |-> mood,
                   intensity |-> intensity, notes |-> notes, date |-> date, now |-> now,
                   existingEntries |-> <<>>, result |-> NoResult ]
     IN calls' = [calls EXCEPT ![p] =
          IF ~ GetMoodByName(mood)
            THEN [call EXCEPT !.result = Result("logMood", FALSE, "Invalid mood selected", 0, "none")]
            ELSE IF intensity < 1 \/ intensity > 10
              THEN [call EXCEPT !.result = Result("logMood", FALSE, "Intensity must be between 1 and 10", 0, "none")]
              ELSE [call EXCEPT !.pc = "write",
                                !.existingEntries =
                                   [id \in GetMoodsByDate(moods, userId, date, "none") |-> moods[id]]]]
  /\ UNCHANGED <<appointments, nextId, userTherapists, last, conflictCall,
                 therapists, query, slotsLoop, moods, nextMoodId, users, sessions, nextConnId>>

\* the write of the call: update of the entry found, or add
LogMoodWrite(p) ==
  /\ calls[p].pc = "write"
  /\ LET c == calls[p] IN
       IF DOMAIN c.existingEntries # {}
         THEN LET existing == First(DOMAIN c.existingEntries) IN
           /\ moods' = Update(moods, existing,
                [c.existingEntries[existing] EXCEPT !.mood = c.mood, !.intensity = c.intensity,
                                                    !.notes = c.notes, !.timestamp = c.now])
           /\ UNCHANGED nextMoodId
           /\ calls' = [calls EXCEPT ![p] =
                [c EXCEPT !.pc = "done",
                          !.result = Result("logMood", TRUE, "Mood entry updated", existing, "none")]]
         ELSE /\ nextMoodId <= MaxMoods
              /\ moods' = Add(moods, nextMoodId,
                   [ userId |-> c.userId, mood |-> c.mood, intensity |-> c.intensity,
                     notes |-> c.notes, date |-> c.date, timestamp |-> c.now ])
              /\ nextMoodId' = nextMoodId + 1
              /\ calls' = [calls EXCEPT ![p] =
                   [c EXCEPT !.pc = "done",
                             !.result = Result("logMood", TRUE, "Mood logged successfully", nextMoodId, "none")]]
  /\ UNCHANGED <<appointments, nextId, userTherapists, last, conflictCall,
                 therapists, query, slotsLoop, users, sessions, nextConnId>>

NextMoodRace ==
  \/ \E p \in Procs, userId \in Users, mood \in MoodNames, intensity \in {5, 11},
        notes \in MoodNotes, date \in MoodDates, now \in MoodNows :
       LogMoodLookup(p, userId, mood, intensity, notes, date, now)
  \/ \E p \in Procs : LogMoodWrite(p)

SpecMoodRace == Init /\ [][NextMoodRace]_vars

\* ---------------------------------------------------------- account deletion
\* MindSpaceDB.init: the indexes each object store is created with
Indexes ==
  [ users          |-> {"email", "username"},
    therapists     |-> {"specialization", "name"},
    userTherapists |-> {"userId", "therapistId", "userTherapist"},
    appointments   |-> {"userId", "therapistId", "date", "status"},
    moods          |-> {"userId", "date", "timestamp"},
    sessions       |-> {"token"} ]

\* Auth.deleteAccount.  mindspaceDB.getByIndex(storeName, indexName, value)
\* calls store.index(indexName), which throws when the store has no index
\* of that name; the throw ends the call in its catch, after the deletes
\* already made.
DeleteAccount(userId, password) ==
  /\ UNCHANGED <<nextId, calls, conflictCall, therapists, query, slotsLoop,
                 nextMoodId, nextConnId>>
  /\ LET user == {u \in users : u.id = userId} IN
       IF user = {}
         THEN /\ last' = Result("deleteAccount", FALSE, "User not found", 0, "none")
              /\ UNCHANGED <<users, sessions, userTherapists, appointments, moods>>
         ELSE IF \E u \in user : u.password # password
           THEN /\ last' = Result("deleteAccount", FALSE, "Password is incorrect", 0, "none")
                /\ UNCHANGED <<users, sessions, userTherapists, appointments, moods>>
           ELSE /\ users' = users \ user
                /\ IF "userId" \notin Indexes.sessions
                     THEN /\ last' = Result("deleteAccount", FALSE, "Failed to delete account", 0, "none")
                          /\ UNCHANGED <<sessions, userTherapists, appointments, moods>>
                     ELSE /\ sessions' = {s \in sessions : s.userId # userId}
                          /\ IF "userId" \notin Indexes.userTherapists
                               THEN /\ last' = Result("deleteAccount", FALSE, "Failed to delete account", 0, "none")
                                    /\ UNCHANGED <<userTherapists, appointments, moods>>
                               ELSE /\ userTherapists' = {ut \in userTherapists : ut.userId # userId}
                                    /\ IF "userId" \notin Indexes.appointments
                                         THEN /\ last' = Result("deleteAccount", FALSE, "Failed to delete account", 0, "none")
                                              /\ UNCHANGED <<appointments, moods>>
                                         ELSE /\ appointments' =
                                                   [ id \in {id \in DOMAIN appointments :
                                                               appointments[id].userId # userId}
                                                       |-> appointments[id] ]
                                              /\ IF "userId" \notin Indexes.moods
                                                   THEN /\ last' = Result("deleteAccount", FALSE, "Failed to delete account", 0, "none")
                                                        /\ UNCHANGED moods
                                                   ELSE /\ moods' =
                                                             [ id \in {id \in DOMAIN moods :
                                                                         moods[id].userId # userId}
                                                                 |-> moods[id] ]
                                                        /\ last' = Result("deleteAccount", TRUE, "Account deleted successfully", 0, "none")

\* Nobody, u1 or u2 is logged in: createSession clears the sessions store
\* before it adds the session of the user.
InitAccount ==
  /\ appointments = <<>>
  /\ nextId = 1
  /\ userTherapists = InitialConnections
  /\ last = NoResult
  /\ calls = [p \in Procs |-> Idle]
  /\ conflictCall = NoConflictCall
  /\ therapists = SampleTherapists
  /\ query = NoQuery
  /\ slotsLoop = NoLoop
  /\ moods = <<>>
  /\ nextMoodId = 1
  /\ users = InitialUsers
  /\ sessions \in {{}} \cup {{[userId |-> u, token |-> "token"]} : u \in Users}
  /\ nextConnId = Cardinality(InitialConnections) + 1

\* Users book, log moods and delete accounts, one call at a time; every
\* store request the schema allows succeeds.
NextAccount ==
  \/ \E userId \in Users, therapistId \in Therapists, slot \in Slots,
        duration \in Durations, notes \in BookNotes :
       BookAppointment(userId, therapistId, slot[1], slot[2], duration, notes, "none")
  \/ \E userId \in Users, mood \in {"Happy"}, intensity \in {5}, notes \in MoodNotes,
        date \in {1}, now \in MoodNows :
       LogMood(userId, mood, intensity, notes, date, now, "none")
  \/ \E userId \in Users, password \in {"pw1", "pw2"} :
       DeleteAccount(userId, password)

SpecAccount == InitAccount /\ [][NextAccount]_vars

\* ------------------------------------------------------ therapist connections
\* the connection ids the store hands out stop at MaxConns
MaxConns == 4

\* TherapistManager.connectTherapist up to its first await: the read of the
\* connections of the user and the existence check.  A process starts its
\* next call when its last one has returned.
ConnectLookup(p, userId, therapistId) ==
  /\ calls[p].pc \in {"idle", "done"}
  /\ LET existingConnections == {conn \in userTherapists : conn.userId = userId}
         alreadyConnected == \E conn \in existingConnections : conn.therapistId = therapistId
         call == [ pc |-> "done", userId |-> userId, therapistId |-> therapistId,
                   result |-> NoResult ]
     IN calls' = [calls EXCEPT ![p] =
          IF alreadyConnected
            THEN [call EXCEPT !.result =
                    Result("connect", FALSE, "You are already connected with this therapist", 0, "none")]
            ELSE [call EXCEPT !.pc = "insert"]]
  /\ UNCHANGED <<appointments, nextId, userTherapists, last, conflictCall,
                 therapists, query, slotsLoop, moods, nextMoodId, users, sessions, nextConnId>>

\* the insert of the call, without the unique index 'userTherapist'
ConnectInsertNoUniqueIndex(p) ==
  /\ calls[p].pc = "insert"
  /\ nextConnId <= MaxConns
  /\ LET c == calls[p] IN
       /\ userTherapists' = userTherapists \cup
            {[id |-> nextConnId, userId |-> c.userId, therapistId |-> c.therapistId,
              status |-> "active"]}
       /\ nextConnId' = nextConnId + 1
       /\ calls' = [calls EXCEPT ![p] =
            [c EXCEPT !.pc = "done",
                      !.result = Result("connect", TRUE, "Successfully connected with therapist", nextConnId, "none")]]
  /\ UNCHANGED <<appointments, nextId, last, conflictCall,
                 therapists, query, slotsLoop, moods, nextMoodId, users, sessions>>

\* the insert of the call: mindspaceDB.add('userTherapists', connection).
\* The store has the unique index 'userTherapist' on [userId, therapistId]:
\* the add request of a record whose pair is in the store fails, and the
\* catch of connectTherapist returns the failure result.
ConnectInsert(p) ==
  /\ calls[p].pc = "insert"
  /\ LET c == calls[p] IN
       IF \E conn \in userTherapists :
            conn.userId = c.userId /\ conn.therapistId = c.therapistId
         THEN /\ calls' = [calls EXCEPT ![p] =
                   [c EXCEPT !.pc = "done",
                             !.result = Result("connect", FALSE, "Failed to connect with therapist", 0, "none")]]
              /\ UNCHANGED <<userTherapists, nextConnId>>
         ELSE /\ nextConnId <= MaxConns
              /\ userTherapists' = userTherapists \cup
                   {[id |-> nextConnId, userId |-> c.userId, therapistId |-> c.therapistId,
                     status |-> "active"]}
              /\ nextConnId' = nextConnId + 1
              /\ calls' = [calls EXCEPT ![p] =
                   [c EXCEPT !.pc = "done",
                             !.result = Result("connect", TRUE, "Successfully connected with therapist", nextConnId, "none")]]
  /\ UNCHANGED <<appointments, nextId, last, conflictCall,
                 therapists, query, slotsLoop, moods, nextMoodId, users, sessions>>

\* TherapistManager.disconnectTherapist, its read and its delete in one step
DisconnectTherapist(userId, therapistId) ==
  /\ LET connections == {conn \in userTherapists : conn.userId = userId}
         found == {conn \in connections : conn.therapistId = therapistId}
     IN IF found = {}
          THEN /\ last' = Result("disconnect", FALSE, "Connection not found", 0, "none")
               /\ UNCHANGED userTherapists
          ELSE LET connection == CHOOSE conn \in found :
                                   \A other \in found : conn.id <= other.id
               IN /\ userTherapists' = {conn \in userTherapists : conn.id # connection.id}
                  /\ last' = Result("disconnect", TRUE, "Successfully disconnected from therapist",
                                    connection.id, "none")
  /\ UNCHANGED <<appointments, nextId, calls, conflictCall, therapists, query,
                 slotsLoop, moods, nextMoodId, users, sessions, nextConnId>>

NextConnect ==
  \/ \E p \in Procs, userId \in Users, therapistId \in Therapists :
       ConnectLookup(p, userId, therapistId)
  \/ \E p \in Procs : ConnectInsert(p)
  \/ \E userId \in Users, therapistId \in Therapists :
       DisconnectTherapist(userId, therapistId)

SpecConnect == Init /\ [][NextConnect]_vars

\* ------------------------------------------------- getTherapistAvailability
\* mutant: a cancelled appointment still removes its time from the result
GetTherapistAvailabilityCountsCancelled(thers, appts, therapistId, date, fault) ==
  IF fault = "get" \/ therapistId \notin DOMAIN thers
    THEN <<>>
    ELSE IF GetDayOfWeek(date) \notin thers[therapistId].availability
      THEN <<>>
      ELSE IF fault = "apptRead"
        THEN <<>>
        ELSE LET dateAppointments ==
                   {id \in DOMAIN appts : /\ appts[id].therapistId = therapistId
                                         /\ appts[id].date = date}
                 allSlots == GenerateTimeSlots(9, 17, 50)
                 bookedTimes == {appts[id].time : id \in dateAppointments}
             IN SelectSeq(allSlots, LAMBDA slot : slot \notin bookedTimes)

\* TherapistManager.getTherapistAvailability: the therapist record, the day
\* check, the appointments of the therapist, then the 50-minute slots from
\* 9 to 17; a failed request of either store is caught and answered with
\* the empty list
GetTherapistAvailability(thers, appts, therapistId, date, fault) ==
  IF fault = "get" \/ therapistId \notin DOMAIN thers
    THEN <<>>
    ELSE IF GetDayOfWeek(date) \notin thers[therapistId].availability
      THEN <<>>
      ELSE IF fault = "apptRead"
        THEN <<>>
        ELSE LET dateAppointments ==
                   {id \in DOMAIN appts : /\ appts[id].therapistId = therapistId
                                         /\ appts[id].date = date
                                         /\ appts[id].status # "cancelled"}
                 allSlots == GenerateTimeSlots(9, 17, 50)
                 bookedTimes == {appts[id].time : id \in dateAppointments}
             IN SelectSeq(allSlots, LAMBDA slot : slot \notin bookedTimes)

TherapistAvailability(therapistId, date, fault) ==
  /\ query' =
       [ op |-> "getTherapistAvailability",
         args |-> [ therapistId |-> therapistId, date |-> date, fault |-> fault ],
         result |-> GetTherapistAvailability(therapists, appointments, therapistId,
                                             date, fault) ]
  /\ UNCHANGED <<appointments, nextId, userTherapists, last, calls, conflictCall,
                 therapists, slotsLoop, moods, nextMoodId, users, sessions, nextConnId>>

\* one query of either manager per store
NextAvailability ==
  \/ \E therapistId \in SlotTherapists, date \in SlotDates, fault \in SlotFaults :
       /\ query.op = "none"
       /\ TherapistAvailability(therapistId, date, fault)
  \/ \E therapistId \in SlotTherapists, date \in SlotDates, fault \in SlotFaults :
       /\ query.op = "none"
       /\ AvailableSlots(therapistId, date, 50, fault)

SpecAvailability == InitSlots /\ [][NextAvailability]_vars

\* ------------------------------------------------------------------ claims
\* The conditions below are written from the claims' wording, over the
\* stores, and not through the operators that model the code.
ClaimConnected(userId, therapistId) ==
  \E c \in userTherapists :
    c.userId = userId /\ c.therapistId = therapistId /\ c.status = "active"

ClaimOccupied(therapistId, date, time) ==
  \E id \in DOMAIN appointments :
    /\ appointments[id].therapistId = therapistId
    /\ appointments[id].date = date
    /\ appointments[id].time = time
    /\ appointments[id].status # "cancelled"

ClaimOthersUnchanged(id) ==
  \A j \in DOMAIN appointments : j # id => appointments'[j] = appointments[j]

\* C1: with calls executed one at a time, no two stored appointments of the
\* same therapist whose status is not 'cancelled' have the same (date, time).
C1_NoSharedSlot ==
  \A i, j \in DOMAIN appointments :
    ( /\ i # j
      /\ appointments[i].therapistId = appointments[j].therapistId
      /\ appointments[i].status # "cancelled"
      /\ appointments[j].status # "cancelled" )
    => <<appointments[i].date, appointments[i].time>>
         # <<appointments[j].date, appointments[j].time>>

\* C2: two bookAppointment calls for the same therapist, date and time by
\* connected users, whose availability checks both run before either insert,
\* both return success and leave two 'confirmed' appointments in the same
\* exact slot.
C2_RaceBothSucceed ==
  \A p, q \in Procs :
    ( /\ p # q
      /\ calls[p].pc = "done"
      /\ calls[q].pc = "done"
      /\ calls[p].isAvailable
      /\ calls[q].isAvailable
      /\ calls[p].therapistId = calls[q].therapistId
      /\ calls[p].date = calls[q].date
      /\ calls[p].time = calls[q].time )
    => /\ calls[p].result.success
       /\ calls[q].result.success
       /\ calls[p].result.id # calls[q].result.id
       /\ \A c \in {calls[p], calls[q]} :
            /\ c.result.id \in DOMAIN appointments
            /\ appointments[c.result.id].status = "confirmed"
            /\ appointments[c.result.id].therapistId = c.therapistId
            /\ appointments[c.result.id].date = c.date
            /\ appointments[c.result.id].time = c.time

\* both calls have returned success for one slot
C2_Witness ==
  /\ calls["p1"].pc = "done"
  /\ calls["p2"].pc = "done"
  /\ calls["p1"].result.success
  /\ calls["p2"].result.success
  /\ \E i, j \in DOMAIN appointments :
       /\ i # j
       /\ appointments[i].status = "confirmed"
       /\ appointments[j].status = "confirmed"
       /\ appointments[i].therapistId = appointments[j].therapistId
       /\ appointments[i].date = appointments[j].date
       /\ appointments[i].time = appointments[j].time

\* C3: 'completed' and 'cancelled' are terminal: once an appointment has one
\* of these statuses, no cancel, reschedule or complete call changes its
\* status, date or time.
C3_TerminalStates ==
  [][ \A id \in DOMAIN appointments :
        ( /\ appointments[id].status \in {"completed", "cancelled"}
          /\ last'.op \in {"cancel", "reschedule", "complete"} )
        => /\ id \in DOMAIN appointments'
           /\ appointments'[id].status = appointments[id].status
           /\ appointments'[id].date = appointments[id].date
           /\ appointments'[id].time = appointments[id].time ]_vars

\* C4: on an appointment whose status is 'cancelled', cancelAppointment and
\* rescheduleAppointment both return a failure and leave every stored
\* appointment record unchanged.
C4_CancelledRejects ==
  [][ last'.op \in {"cancel", "reschedule"} => \A id \in DOMAIN appointments :
        appointments[id].status = "cancelled"
        => /\ CancelAppointment(id, "none")
                => (~ last'.success /\ appointments' = appointments)
           /\ \A slot \in Slots :
                RescheduleAppointment(id, slot[1], slot[2], "none")
                => (~ last'.success /\ appointments' = appointments) ]_vars

\* a reschedule of a cancelled appointment was rejected although every
\* slot of its therapist is free (all stored appointments are cancelled)
C4_Witness ==
  /\ last.op = "reschedule"
  /\ ~ last.success
  /\ last.message = "Cannot reschedule a cancelled appointment"
  /\ appointments # <<>>
  /\ \A id \in DOMAIN appointments : appointments[id].status = "cancelled"

\* C5: bookAppointment by a user with no active connection to the therapist
\* returns the not-connected failure and adds no appointment, whether or not
\* the requested slot is free.
C5_NotConnectedRejected ==
  [][ last'.op = "book" => \A userId \in Users, therapistId \in Therapists, slot \in Slots,
         duration \in Durations, notes \in BookNotes :
        ( /\ ~ ClaimConnected(userId, therapistId)
          /\ BookAppointment(userId, therapistId, slot[1], slot[2], duration, notes, "none") )
        => /\ ~ last'.success
           /\ last'.message = "You must be connected with this therapist first"
           /\ appointments' = appointments ]_vars

\* the not-connected failure was returned while the therapist concerned has
\* both an occupied and a free slot
C5_Witness ==
  /\ last.op = "book"
  /\ last.message = "You must be connected with this therapist first"
  /\ \E userId \in Users, therapistId \in Therapists :
       /\ ~ ClaimConnected(userId, therapistId)
       /\ \E slot \in Slots : ClaimOccupied(therapistId, slot[1], slot[2])
       /\ \E slot \in Slots : ~ ClaimOccupied(therapistId, slot[1], slot[2])

\* C6: for a connected user bookAppointment succeeds iff no stored
\* appointment of that therapist has the same date, the same time and a
\* status other than 'cancelled'; on success exactly one new 'confirmed'
\* appointment with the requested user, therapist, date and time is added;
\* on the slot-taken failure the store is unchanged.
C6_BookIffSlotFree ==
  [][ last'.op = "book" => \A userId \in Users, therapistId \in Therapists, slot \in Slots,
         duration \in Durations, notes \in BookNotes :
        ( /\ ClaimConnected(userId, therapistId)
          /\ BookAppointment(userId, therapistId, slot[1], slot[2], duration, notes, "none") )
        => IF ClaimOccupied(therapistId, slot[1], slot[2])
             THEN /\ ~ last'.success
                  /\ last'.message = "This time slot is no longer available"
                  /\ appointments' = appointments
             ELSE /\ last'.success
                  /\ last'.id \notin DOMAIN appointments
                  /\ DOMAIN appointments' = DOMAIN appointments \cup {last'.id}
                  /\ \A j \in DOMAIN appointments : appointments'[j] = appointments[j]
                  /\ appointments'[last'.id].status = "confirmed"
                  /\ appointments'[last'.id].userId = userId
                  /\ appointments'[last'.id].therapistId = therapistId
                  /\ appointments'[last'.id].date = slot[1]
                  /\ appointments'[last'.id].time = slot[2] ]_vars

\* a booking succeeded next to a non-cancelled appointment of the same
\* therapist in another slot
C6_Witness ==
  /\ last.op = "book"
  /\ last.success
  /\ last.id \in DOMAIN appointments
  /\ \E j \in DOMAIN appointments :
       /\ j # last.id
       /\ appointments[j].therapistId = appointments[last.id].therapistId
       /\ appointments[j].status # "cancelled"

\* C7: a slot is released by cancellation: when a cancelled appointment sits
\* at (therapist, date, time) and no non-cancelled appointment occupies that
\* slot, a bookAppointment by a connected user for it succeeds.
C7_CancelReleasesSlot ==
  [][ last'.op = "book" => \A userId \in Users, therapistId \in Therapists, slot \in Slots,
         duration \in Durations, notes \in BookNotes :
        ( /\ ClaimConnected(userId, therapistId)
          /\ \E id \in DOMAIN appointments :
               /\ appointments[id].status = "cancelled"
               /\ appointments[id].therapistId = therapistId
               /\ appointments[id].date = slot[1]
               /\ appointments[id].time = slot[2]
          /\ ~ ClaimOccupied(therapistId, slot[1], slot[2])
          /\ BookAppointment(userId, therapistId, slot[1], slot[2], duration, notes, "none") )
        => /\ last'.success
           /\ last'.message = "Appointment booked successfully" ]_vars

\* the appointment just booked shares therapist, date and time with a
\* cancelled one
C7_Witness ==
  /\ last.op = "book"
  /\ last.success
  /\ last.id \in DOMAIN appointments
  /\ appointments[last.id].status = "confirmed"
  /\ \E i \in DOMAIN appointments :
       /\ i # last.id
       /\ appointments[i].status = "cancelled"
       /\ appointments[i].therapistId = appointments[last.id].therapistId
       /\ appointments[i].date = appointments[last.id].date
       /\ appointments[i].time = appointments[last.id].time

\* C8: rescheduleAppointment on a non-cancelled appointment is rejected with
\* the store unchanged when a non-cancelled appointment of the same therapist
\* occupies (newDate, newTime); otherwise it sets the appointment's date and
\* time to the new values and leaves its status, userId, therapistId and
\* duration unchanged.
C8_Reschedule ==
  [][ last'.op = "reschedule" => \A id \in DOMAIN appointments, slot \in Slots :
        ( /\ appointments[id].status # "cancelled"
          /\ RescheduleAppointment(id, slot[1], slot[2], "none") )
        => IF ClaimOccupied(appointments[id].therapistId, slot[1], slot[2])
             THEN /\ ~ last'.success
                  /\ appointments' = appointments
             ELSE /\ last'.success
                  /\ DOMAIN appointments' = DOMAIN appointments
                  /\ appointments'[id].date = slot[1]
                  /\ appointments'[id].time = slot[2]
                  /\ appointments'[id].status = appointments[id].status
                  /\ appointments'[id].userId = appointments[id].userId
                  /\ appointments'[id].therapistId = appointments[id].therapistId
                  /\ appointments'[id].duration = appointments[id].duration
                  /\ ClaimOthersUnchanged(id) ]_vars

\* a reschedule succeeded in a store that holds two non-cancelled
\* appointments of one therapist
C8_Witness ==
  /\ last.op = "reschedule"
  /\ last.success
  /\ \E i, j \in DOMAIN appointments :
       /\ i # j
       /\ appointments[i].therapistId = appointments[j].therapistId
       /\ appointments[i].status # "cancelled"
       /\ appointments[j].status # "cancelled"

\* C9: completeAppointment on any existing appointment sets its status to
\* 'completed' whatever its current status, 'completed' and 'cancelled'
\* included.
C9_CompleteUnconditional ==
  [][ last'.op = "complete" => \A id \in DOMAIN appointments :
        CompleteAppointment(id, "none")
        => /\ last'.success
           /\ id \in DOMAIN appointments'
           /\ appointments'[id].status = "completed" ]_vars

\* a cancelled appointment was completed
C9_Witness ==
  /\ last.op = "complete"
  /\ last.success
  /\ last.was = "cancelled"
  /\ \E id \in DOMAIN appointments : appointments[id].status = "completed"

\* C10: hasConflict(userId, date, time, duration) is true iff some
\* non-cancelled appointment of that user on that date has an interval
\* [start, start+duration) with newStart < existingEnd and
\* newEnd > existingStart; an existing 09:00 appointment of 50 minutes does
\* not conflict with a new 09:50 and does conflict with a new 09:49.
C10_MinuteOfDay == (T0900 :> 540) @@ (T0949 :> 589) @@ (T0950 :> 590)

C10_Overlaps(id) ==
  /\ appointments[id].userId = conflictCall.userId
  /\ appointments[id].date = conflictCall.date
  /\ appointments[id].status # "cancelled"
  /\ C10_MinuteOfDay[conflictCall.time]
       < C10_MinuteOfDay[appointments[id].time] + appointments[id].duration
  /\ C10_MinuteOfDay[conflictCall.time] + conflictCall.duration
       > C10_MinuteOfDay[appointments[id].time]

C10_NineForFifty(id) ==
  /\ appointments[id].userId = conflictCall.userId
  /\ appointments[id].date = conflictCall.date
  /\ appointments[id].status # "cancelled"
  /\ appointments[id].time = T0900
  /\ appointments[id].duration = 50

C10_HasConflictIffOverlap ==
  conflictCall.op = "hasConflict"
  => /\ conflictCall.result <=> \E id \in DOMAIN appointments : C10_Overlaps(id)
     /\ ( /\ conflictCall.time = T0949
          /\ \E id \in DOMAIN appointments : C10_NineForFifty(id) )
        => conflictCall.result
     /\ ( /\ conflictCall.time = T0950
          /\ \A id \in DOMAIN appointments :
               ( /\ appointments[id].userId = conflictCall.userId
                 /\ appointments[id].date = conflictCall.date
                 /\ appointments[id].status # "cancelled" )
               => C10_NineForFifty(id) )
        => ~ conflictCall.result

\* a new 09:50 was found free of conflict next to the user's non-cancelled
\* 09:00 appointment of 50 minutes on the same date
C10_Witness ==
  /\ conflictCall.op = "hasConflict"
  /\ conflictCall.time = T0950
  /\ ~ conflictCall.result
  /\ \E id \in DOMAIN appointments : C10_NineForFifty(id)

\* C11: hasConflict fails safe: whenever the store read of the user's
\* appointments fails during hasConflict, hasConflict returns true (reports a
\* conflict) and never returns false.
C11_FailsSafe ==
  ( /\ conflictCall.op = "hasConflict"
    /\ conflictCall.fault = "apptRead" )
  => conflictCall.result

\* C12: no double-booking on the user side: no user holds two non-cancelled
\* appointments (possibly with different therapists) on the same date whose
\* intervals [start, start+duration) overlap.
C12_NoUserOverlap ==
  \A i, j \in DOMAIN appointments :
    ( /\ i # j
      /\ appointments[i].userId = appointments[j].userId
      /\ appointments[i].date = appointments[j].date
      /\ appointments[i].status # "cancelled"
      /\ appointments[j].status # "cancelled" )
    => \/ C10_MinuteOfDay[appointments[i].time] + appointments[i].duration
            <= C10_MinuteOfDay[appointments[j].time]
       \/ C10_MinuteOfDay[appointments[j].time] + appointments[j].duration
            <= C10_MinuteOfDay[appointments[i].time]

\* C16: for every duration that evenly divides the 480-minute 09:00-17:00
\* window, generateTimeSlots(9, 17, duration) returns exactly
\* (17-9)*60/duration slots.
C16_SlotCount ==
  ( /\ slotsLoop.pc = "done"
    /\ slotsLoop.startHour = 9
    /\ slotsLoop.endHour = 17
    /\ slotsLoop.duration > 0
    /\ ((17 - 9) * 60) % slotsLoop.duration = 0 )
  => Len(slotsLoop.slots) = ((17 - 9) * 60) \div slotsLoop.duration

\* generateTimeSlots(9, 17, 30) has returned its 16 slots
C16_Witness ==
  /\ slotsLoop.pc = "done"
  /\ slotsLoop.startHour = 9
  /\ slotsLoop.endHour = 17
  /\ slotsLoop.duration = 30
  /\ Len(slotsLoop.slots) = 16

\* minutes after midnight that the digits of an 'HH:MM' string denote
ClaimMinutes(time) == (time[1] * 10 + time[2]) * 60 + time[3] * 10 + time[4]

\* C17: for positive duration generateTimeSlots(startHour, endHour, duration)
\* returns, in ascending order, exactly the times startHour*60 + k*duration
\* (k = 0, 1, ...) for which startHour*60 + (k+1)*duration <= endHour*60, and
\* returns zero slots when duration exceeds the window length.
C17_ExactSlots ==
  ( /\ slotsLoop.pc = "done"
    /\ slotsLoop.duration > 0 )
  => LET start == slotsLoop.startHour * 60
         end == slotsLoop.endHour * 60
         d == slotsLoop.duration
         slots == slotsLoop.slots
         Fits == {k \in 0..MaxSlots : start + (k + 1) * d <= end}
     IN /\ Len(slots) = Cardinality(Fits)
        /\ \A i \in 1..Len(slots) :
             /\ (i - 1) \in Fits
             /\ slots[i][1] \in 0..9 /\ slots[i][2] \in 0..9
             /\ slots[i][3] \in 0..5 /\ slots[i][4] \in 0..9
             /\ ClaimMinutes(slots[i]) = start + (i - 1) * d
        /\ \A i, j \in 1..Len(slots) :
             i < j => ClaimMinutes(slots[i]) < ClaimMinutes(slots[j])
        /\ (d > end - start) => slots = <<>>

\* generateTimeSlots(9, 17, 50) has returned nine slots, the last one '15:40'
C17_Witness ==
  /\ slotsLoop.pc = "done"
  /\ slotsLoop.startHour = 9
  /\ slotsLoop.endHour = 17
  /\ slotsLoop.duration = 50
  /\ Len(slotsLoop.slots) = 9
  /\ slotsLoop.slots[9] = <<1, 5, 4, 0>>

\* C18: generateTimeSlots terminates for every integer duration, 0 and
\* negative durations included.  The loop ends when currentTime + duration
\* exceeds endTime; it terminates iff every pass through its body brings
\* currentTime strictly closer to endTime.
C18_LoopTerminates ==
  [][ ( /\ slotsLoop.pc = "loop"
        /\ slotsLoop'.pc = "loop" )
      => slotsLoop'.endTime - slotsLoop'.currentTime
           < slotsLoop.endTime - slotsLoop.currentTime ]_vars

\* the weekday of the dates asked for: day 1 is a Monday, day 5 a Friday
ClaimWeekday == (1 :> "Monday") @@ (5 :> "Friday")

\* the therapist exists and works on the weekday of the date
ClaimWorks(therapistId, date) ==
  /\ therapistId \in DOMAIN therapists
  /\ ClaimWeekday[date] \in therapists[therapistId].availability

\* the elements of a sequence
ClaimRange(seq) == {seq[i] : i \in DOMAIN seq}

\* C13: for a therapist working on the weekday of the date,
\* getAvailableSlots returns exactly the generated candidate slots, in
\* generation order, minus every time held by a non-cancelled appointment of
\* that therapist on that date; if every appointment of that therapist on
\* that date is cancelled it returns the full candidate set.
C13_AvailableSlots ==
  ( /\ query.op = "getAvailableSlots"
    /\ query.args.fault = "none"
    /\ ClaimWorks(query.args.therapistId, query.args.date) )
  => LET candidates == GenerateTimeSlots(9, 17, query.args.duration)
     IN /\ query.result =
             SelectSeq(candidates, LAMBDA time :
               ~ ClaimOccupied(query.args.therapistId, query.args.date, time))
        /\ ( \A id \in DOMAIN appointments :
               ( /\ appointments[id].therapistId = query.args.therapistId
                 /\ appointments[id].date = query.args.date )
               => appointments[id].status = "cancelled" )
           => query.result = candidates

\* the slots were returned for a date on which the therapist has a
\* non-cancelled appointment, whose time is missing from the result, and a
\* cancelled one at another time, whose time is in the result
C13_Witness ==
  /\ query.op = "getAvailableSlots"
  /\ query.args.fault = "none"
  /\ \E i, j \in DOMAIN appointments :
       /\ appointments[i].therapistId = query.args.therapistId
       /\ appointments[j].therapistId = query.args.therapistId
       /\ appointments[i].date = query.args.date
       /\ appointments[j].date = query.args.date
       /\ appointments[i].status # "cancelled"
       /\ appointments[j].status = "cancelled"
       /\ appointments[i].time \notin ClaimRange(query.result)
       /\ appointments[j].time \in ClaimRange(query.result)

\* C14: getAvailableSlots fails closed: it returns the empty sequence
\* whenever the therapist's availability set does not contain the weekday of
\* the requested date, whenever the therapist does not exist, and whenever a
\* store read fails.
C14_FailsClosed ==
  ( /\ query.op = "getAvailableSlots"
    /\ \/ query.args.fault # "none"
       \/ ~ ClaimWorks(query.args.therapistId, query.args.date) )
  => query.result = <<>>

\* the empty list was returned, with every store request answered, for an
\* existing therapist on a Friday they do not work and have no appointment
C14_Witness ==
  /\ query.op = "getAvailableSlots"
  /\ query.args.fault = "none"
  /\ query.args.therapistId \in DOMAIN therapists
  /\ query.args.date = 5
  /\ "Friday" \notin therapists[query.args.therapistId].availability
  /\ \A id \in DOMAIN appointments :
       appointments[id].therapistId # query.args.therapistId
  /\ query.result = <<>>

\* a candidate of the asked duration overlaps the interval of appointment id
C15_Overlaps(time, id) ==
  /\ ClaimMinutes(time) < ClaimMinutes(appointments[id].time) + appointments[id].duration
  /\ ClaimMinutes(time) + query.args.duration > ClaimMinutes(appointments[id].time)

\* C15: slot subtraction in getAvailableSlots is by exact start-time
\* equality, not interval overlap: a non-cancelled appointment at time T with
\* duration D removes only a candidate equal to T, so a candidate that
\* overlaps [T, T+D) and starts at another time (09:30 for 30 minutes against
\* a booked 09:00 for 50 minutes) is still returned.
C15_ExactStartOnly ==
  ( /\ query.op = "getAvailableSlots"
    /\ query.args.fault = "none"
    /\ ClaimWorks(query.args.therapistId, query.args.date) )
  => LET candidates == ClaimRange(GenerateTimeSlots(9, 17, query.args.duration))
         booked == {id \in DOMAIN appointments :
                      /\ appointments[id].therapistId = query.args.therapistId
                      /\ appointments[id].date = query.args.date
                      /\ appointments[id].status # "cancelled"}
     IN \A id \in booked :
          /\ appointments[id].time \notin ClaimRange(query.result)
          /\ \A time \in candidates :
               ( /\ C15_Overlaps(time, id)
                 /\ \A other \in booked : appointments[other].time # time )
               => time \in ClaimRange(query.result)

\* 30-minute slots were returned next to a non-cancelled 09:00 appointment
\* of 50 minutes: '09:30' is among them, '09:00' is not
C15_Witness ==
  /\ query.op = "getAvailableSlots"
  /\ query.args.fault = "none"
  /\ query.args.duration = 30
  /\ \E id \in DOMAIN appointments :
       /\ appointments[id].therapistId = query.args.therapistId
       /\ appointments[id].date = query.args.date
       /\ appointments[id].status # "cancelled"
       /\ appointments[id].time = T0900
       /\ appointments[id].duration = 50
  /\ <<0, 9, 3, 0>> \in ClaimRange(query.result)
  /\ T0900 \notin ClaimRange(query.result)

\* the start instant of a stored appointment, in minutes since day 0
ClaimStart(id) ==
  appointments[id].date * (24 * 60) + C10_MinuteOfDay[appointments[id].time]

\* C19: for every stored appointment of a user and every current instant,
\* the appointment is returned by at most one of getUpcomingAppointments,
\* getPastAppointments and getCancelledAppointments.
C19_AtMostOneList ==
  query.op = "lists"
  => \A id \in DOMAIN appointments :
       /\ ~ ( /\ id \in ClaimRange(query.result.upcoming)
              /\ id \in ClaimRange(query.result.past) )
       /\ ~ ( /\ id \in ClaimRange(query.result.upcoming)
              /\ id \in ClaimRange(query.result.cancelled) )
       /\ ~ ( /\ id \in ClaimRange(query.result.past)
              /\ id \in ClaimRange(query.result.cancelled) )

\* C20: getUpcomingAppointments returns exactly the user's appointments
\* whose start instant is strictly after now and whose status is
\* 'confirmed'; getPastAppointments returns exactly those whose start
\* instant is before now or whose status is 'completed' (a future-dated
\* completed appointment is past and never upcoming);
\* getCancelledAppointments returns exactly those with status 'cancelled'.
C20_ListContents ==
  query.op = "lists"
  => LET mine == {id \in DOMAIN appointments :
                    appointments[id].userId = query.args.userId}
         now == query.args.now
         lists == query.result
     IN /\ "upcoming" \in lists.asked =>
             /\ ClaimRange(lists.upcoming) =
                  {id \in mine : /\ ClaimStart(id) > now
                                 /\ appointments[id].status = "confirmed"}
             /\ Len(lists.upcoming) = Cardinality(ClaimRange(lists.upcoming))
        /\ "past" \in lists.asked =>
             /\ ClaimRange(lists.past) =
                  {id \in mine : \/ ClaimStart(id) < now
                                 \/ appointments[id].status = "completed"}
             /\ Len(lists.past) = Cardinality(ClaimRange(lists.past))
        /\ "cancelled" \in lists.asked =>
             /\ ClaimRange(lists.cancelled) =
                  {id \in mine : appointments[id].status = "cancelled"}
             /\ Len(lists.cancelled) = Cardinality(ClaimRange(lists.cancelled))
        /\ ("upcoming" \in lists.asked /\ "past" \in lists.asked) =>
             \A id \in mine :
               ( /\ ClaimStart(id) > now
                 /\ appointments[id].status = "completed" )
               => /\ id \in ClaimRange(lists.past)
                  /\ id \notin ClaimRange(lists.upcoming)

\* the three lists were returned to a user who holds a completed appointment
\* that starts after now, listed as past, and a confirmed appointment that
\* starts exactly at now, listed nowhere
C20_Witness ==
  /\ query.op = "lists"
  /\ query.result.asked = {"upcoming", "past", "cancelled"}
  /\ \E i, j \in DOMAIN appointments :
       /\ appointments[i].userId = query.args.userId
       /\ appointments[j].userId = query.args.userId
       /\ appointments[i].status = "completed"
       /\ ClaimStart(i) > query.args.now
       /\ i \in ClaimRange(query.result.past)
       /\ appointments[j].status = "confirmed"
       /\ ClaimStart(j) = query.args.now
       /\ j \notin ClaimRange(query.result.upcoming)
       /\ j \notin ClaimRange(query.result.past)

\* C21: the result of getUpcomingAppointments is ordered ascending by start
\* instant (so getNextAppointment, its first element, is the earliest future
\* confirmed appointment), and the results of getPastAppointments and
\* getCancelledAppointments are ordered descending by start instant.
C21_ListOrder ==
  query.op = "lists"
  => LET lists == query.result
     IN /\ \A i, j \in DOMAIN lists.upcoming :
             i < j => ClaimStart(lists.upcoming[i]) <= ClaimStart(lists.upcoming[j])
        /\ \A i, j \in DOMAIN lists.past :
             i < j => ClaimStart(lists.past[i]) >= ClaimStart(lists.past[j])
        /\ \A i, j \in DOMAIN lists.cancelled :
             i < j => ClaimStart(lists.cancelled[i]) >= ClaimStart(lists.cancelled[j])
        /\ "upcoming" \in lists.asked =>
             \A id \in DOMAIN appointments :
               ( /\ appointments[id].userId = query.args.userId
                 /\ appointments[id].status = "confirmed"
                 /\ ClaimStart(id) > query.args.now )
               => /\ lists.upcoming # <<>>
                  /\ ClaimStart(lists.upcoming[1]) <= ClaimStart(id)

\* two upcoming appointments were returned with the later-booked one first,
\* because it starts earlier
C21_Witness ==
  /\ query.op = "lists"
  /\ Len(query.result.upcoming) = 2
  /\ query.result.upcoming[1] > query.result.upcoming[2]
  /\ ClaimStart(query.result.upcoming[1]) < ClaimStart(query.result.upcoming[2])

\* the entries the store holds for one user on one date
ClaimEntries(mds, userId, date) ==
  {id \in DOMAIN mds : mds[id].userId = userId /\ mds[id].date = date}

\* C22: after every logMood, updateMood or deleteMood call the store holds
\* at most one mood entry per (userId, date), and right after a successful
\* logMood for (userId, date) there is exactly one entry for that pair and it
\* carries the mood and the intensity of the call.
C22_OnePerDay ==
  [][ /\ \A userId \in Users, date \in MoodDates :
           Cardinality(ClaimEntries(moods', userId, date)) <= 1
      /\ (last'.op = "logMood" /\ last'.success)
           => \A userId \in Users, mood \in MoodNames, intensity \in Intensities,
                 notes \in MoodNotes, date \in MoodDates, now \in MoodNows :
                LogMood(userId, mood, intensity, notes, date, now, "none")
                  => \E id \in DOMAIN moods' :
                       /\ ClaimEntries(moods', userId, date) = {id}
                       /\ moods'[id].mood = mood
                       /\ moods'[id].intensity = intensity
    ]_vars

\* a second log on a date has overwritten the first entry rather than added one
C22_Witness ==
  /\ last.op = "logMood"
  /\ last.message = "Mood entry updated"
  /\ nextMoodId = 2
  /\ DOMAIN moods = {1}
  /\ moods[1].mood = "Sad"
  /\ moods[1].intensity = 10

\* the names of the ten mood categories
ClaimCategories ==
  {"Happy", "Sad", "Anxious", "Angry", "Calm", "Stressed", "Energetic",
   "Tired", "Hopeful", "Overwhelmed"}

\* C23: a logMood call whose mood is no category or whose intensity is
\* outside 1..10 fails and leaves the moods store as it was, and after every
\* logMood or updateMood call each stored entry has an intensity in 1..10 and
\* a mood that is a category.  (Stated as: no step that reports success or
\* changes the store is a logMood call with such arguments.)
C23_ValidEntries ==
  [][ /\ \A id \in DOMAIN moods' :
           /\ moods'[id].intensity \in 1..10
           /\ moods'[id].mood \in ClaimCategories
      /\ (last'.op = "logMood" /\ (last'.success \/ moods' # moods))
           => \A userId \in Users, mood \in MoodNames, intensity \in Intensities,
                 notes \in MoodNotes, date \in MoodDates, now \in MoodNows :
                (mood \notin ClaimCategories \/ intensity \notin 1..10)
                  => ~ LogMood(userId, mood, intensity, notes, date, now, "none")
    ]_vars

\* a log with an intensity out of range was refused while the store held entries
C23_Witness ==
  /\ last.op = "logMood"
  /\ ~ last.success
  /\ last.message = "Intensity must be between 1 and 10"
  /\ DOMAIN moods # {}


\* the number of days, counted back from `today`, on each of which the user
\* has an entry, up to the first day without one
ClaimStreak(userId, today) ==
  CHOOSE n \in 0..Cardinality(DOMAIN moods) :
    /\ \A k \in 0..(n - 1) : ClaimEntries(moods, userId, today - k) # {}
    /\ ClaimEntries(moods, userId, today - n) = {}

\* C24: the streak that getMoodStats reports from calculateStreak is the
\* largest n such that the user has an entry dated today, today-1, ...,
\* today-(n-1): 0 without an entry dated today, and a gap ends the count.
C24_Streak ==
  query.op = "getMoodStats"
    => query.result.currentStreak
         = ClaimStreak(query.args.userId, query.args.now \div (24 * 60))


\* the user's entries, latest timestamp first (equal timestamps by key)
ClaimLatestFirst(userId) ==
  SortByTimestamp(moods, {id \in DOMAIN moods : moods[id].userId = userId})

\* the mean intensity of a list of entries is above that of another by more
\* than 0.5
ClaimMeanAbove(upper, lower) ==
  /\ upper # <<>> /\ lower # <<>>
  /\ 2 * (SumIntensity(upper) * Len(lower) - SumIntensity(lower) * Len(upper))
       > Len(upper) * Len(lower)

\* C25: the trend that getMoodStats, getMoodInsights and getWeeklySummary
\* report compares the user's 7 entries with the latest timestamps against
\* the 7 entries before them: when the user has at least 14 entries and the
\* mean of the latest 7 is more than 0.5 above the mean of the 7 before
\* them (as with 7 entries at 8 after 7 entries at 4), the trend is
\* "improving".
C25_TrendOfLatest ==
  ( /\ query.op \in {"getMoodStats", "getMoodInsights", "getWeeklySummary"}
    /\ Len(ClaimLatestFirst(query.args.userId)) >= 14
    /\ ClaimMeanAbove(SubSeq(ClaimLatestFirst(query.args.userId), 1, 7),
                      SubSeq(ClaimLatestFirst(query.args.userId), 8, 14)) )
    => query.result.trend = "improving"


\* C26: for a user with at most 7 entries, whatever their intensities, the
\* trend that getMoodTrend returns (as reported by getMoodStats,
\* getMoodInsights and getWeeklySummary) is "stable".
C26_StableUpToSeven ==
  ( /\ query.op \in {"getMoodStats", "getMoodInsights", "getWeeklySummary"}
    /\ query.result # Null
    /\ Len(ClaimLatestFirst(query.args.userId)) <= 7 )
    => query.result.trend = "stable"

\* seven entries, the latest six at 8 after one at 2, are reported stable
C26_Witness ==
  /\ query.op = "getMoodStats"
  /\ query.result.totalEntries = 7
  /\ query.result.trend = "stable"
  /\ moods[1].intensity = 2
  /\ \A id \in 2..7 : moods[id].userId = query.args.userId /\ moods[id].intensity = 8


\* C27: getMoodDistribution returns a count for each of the ten categories
\* and for nothing else, and the count of a category is the number of the
\* user's stored entries with that mood (0 when there is none), so that the
\* counts add up to the number of the user's entries.
C27_Distribution ==
  query.op = "getMoodDistribution"
    => /\ DOMAIN query.result = ClaimCategories
       /\ \A name \in ClaimCategories :
            query.result[name]
              = Cardinality({id \in DOMAIN moods :
                               /\ moods[id].userId = query.args.userId
                               /\ moods[id].mood = name})

\* a user of several entries: one category counted twice, others zero
C27_Witness ==
  /\ query.op = "getMoodDistribution"
  /\ query.args.userId = "u1"
  /\ query.result["Happy"] = 2
  /\ query.result["Sad"] = 1
  /\ query.result["Tired"] = 0
  /\ \E id \in DOMAIN moods : moods[id].mood = "Tired"


\* C28: getMoodInsights gives one recommendation, chosen from the trend, the
\* mean intensity and the number of entries of the last 7 days that it
\* reports, in this order of priority: declining with a mean below 5; else
\* fewer than 3 entries in the 7 days; else improving; else a mean above 7;
\* else the generic message.  An improving trend with fewer than 3 entries
\* in the 7 days gets the message to log more regularly.
C28_Recommendation ==
  (query.op = "getMoodInsights" /\ query.result # Null)
    => LET r        == query.result
           escalate == r.trend = "declining" /\ r.avgIntensity < 50
           logMore  == ~ escalate /\ r.weekEntries < 3
           praise   == ~ escalate /\ ~ logMore /\ r.trend = "improving"
           affirm   == ~ escalate /\ ~ logMore /\ ~ praise /\ r.avgIntensity > 70
       IN /\ escalate => r.recommendation = "Your mood has been declining. Consider scheduling a session with your therapist."
          /\ logMore => r.recommendation = "Try to log your mood more regularly for better insights."
          /\ praise => r.recommendation = "Great! Your mood is improving. Keep up the good work!"
          /\ affirm => r.recommendation = "You're doing well! Continue your current practices."
          /\ (~ escalate /\ ~ logMore /\ ~ praise /\ ~ affirm)
               => r.recommendation = "Remember to practice self-care and reach out to your support system."

\* an improving trend with fewer than 3 entries in the 7 days is told to log
\* more regularly
C28_Witness ==
  /\ query.op = "getMoodInsights"
  /\ query.result # Null
  /\ query.result.trend = "improving"
  /\ query.result.weekEntries < 3
  /\ query.result.recommendation = "Try to log your mood more regularly for better insights."


\* the entries over which the query of the state counts the moods, in the
\* order of the count: the user's entries latest first, for the summaries
\* those of the window
ClaimAggregated ==
  IF query.op = "getMoodInsights"
    THEN ClaimLatestFirst(query.args.userId)
    ELSE IF query.op = "getWeeklySummary"
      THEN Since(ClaimLatestFirst(query.args.userId), query.args.now - 7 * (24 * 60))
      ELSE Since(ClaimLatestFirst(query.args.userId),
                 query.args.now - query.args.monthLength * (24 * 60))

\* the most frequent mood that the query of the state reports
ClaimReported ==
  IF query.op = "getMoodInsights" THEN query.result.mostCommon.name
                                  ELSE query.result.mostCommon

\* the number of entries of a list with a mood
ClaimCount(entries, name) ==
  Cardinality({i \in DOMAIN entries : entries[i].mood = name})

\* the place in a list at which a mood is seen first
ClaimFirstSeen(entries, name) ==
  CHOOSE i \in DOMAIN entries :
    /\ entries[i].mood = name
    /\ \A j \in 1..(i - 1) : entries[j].mood # name

\* the moods with the largest count in a list
ClaimMostFrequent(entries) ==
  LET names == {entries[i].mood : i \in DOMAIN entries}
  IN {name \in names :
        \A other \in names : ClaimCount(entries, name) >= ClaimCount(entries, other)}

\* C29 as stated: the most frequent mood that getWeeklySummary,
\* getMonthlySummary and getMoodInsights report has the largest count, and
\* of several moods with the largest count it is the one seen first in the
\* count.
C29_FirstSeenWins ==
  query.op \in {"getMoodInsights", "getWeeklySummary", "getMonthlySummary"}
    => LET counted == ClaimAggregated
       IN counted # <<>>
            => /\ ClaimReported \in ClaimMostFrequent(counted)
               /\ \A name \in ClaimMostFrequent(counted) :
                    ClaimFirstSeen(counted, ClaimReported) <= ClaimFirstSeen(counted, name)

\* C29, amended: the most frequent mood that getWeeklySummary,
\* getMonthlySummary and getMoodInsights report has the largest count, and
\* of several moods with the largest count it is the one whose key is seen
\* last in the count (the one first met latest in the list of entries).
C29_LastSeenWins ==
  query.op \in {"getMoodInsights", "getWeeklySummary", "getMonthlySummary"}
    => LET counted == ClaimAggregated
       IN counted # <<>>
            => /\ ClaimReported \in ClaimMostFrequent(counted)
               /\ \A name \in ClaimMostFrequent(counted) :
                    ClaimFirstSeen(counted, ClaimReported) >= ClaimFirstSeen(counted, name)

\* two moods tie in the week and the one seen second is reported
C29_Witness ==
  /\ query.op = "getWeeklySummary"
  /\ ClaimMostFrequent(ClaimAggregated) = {"Happy", "Sad"}
  /\ ClaimFirstSeen(ClaimAggregated, "Happy") < ClaimFirstSeen(ClaimAggregated, "Sad")
  /\ query.result.mostCommon = "Sad"


\* C30: getMoodIntensityOverTime(userId, windowDays) returns one record for
\* each date on or after the day (today - windowDays) on which the user has
\* an entry, the day exactly windowDays before today included at any time
\* of the day, and no other record, in ascending order of the dates.
C30_Window ==
  query.op = "getMoodIntensityOverTime"
    => LET records == query.result
           today   == query.args.now \div (24 * 60)
       IN /\ {records[i].date : i \in DOMAIN records}
               = {moods[id].date : id \in
                    {id \in DOMAIN moods :
                       /\ moods[id].userId = query.args.userId
                       /\ moods[id].date >= today - query.args.days}}
          /\ \A i, j \in DOMAIN records : i < j => records[i].date < records[j].date


\* C31: a bookAppointment call during which the connection lookup or the
\* lookup of the therapist's appointments fails returns the generic failure
\* "Failed to book appointment" and adds no appointment.
C31_GenericFailure ==
  [][ (last'.op = "book"
         /\ (last'.message # "Failed to book appointment" \/ appointments' # appointments))
        => \A userId \in Users, therapistId \in Therapists, slot \in Slots,
              duration \in Durations, notes \in BookNotes,
              fault \in {"connRead", "apptRead"} :
             ~ BookAppointment(userId, therapistId, slot[1], slot[2], duration, notes, fault)
    ]_vars

\* C32: a logMood call during which the lookup of the user's entries fails
\* returns a failure and leaves the moods store as it was, and the store
\* never holds two entries for one (userId, date).
C32_LookupFailure ==
  [][ /\ \A userId \in Users, date \in MoodDates :
           Cardinality(ClaimEntries(moods', userId, date)) <= 1
      /\ (last'.op = "logMood" /\ (last'.success \/ moods' # moods))
           => \A userId \in Users, mood \in MoodNames, intensity \in 1..10,
                 notes \in MoodNotes, date \in MoodDates, now \in MoodNows :
                ~ LogMood(userId, mood, intensity, notes, date, now, "moodRead")
    ]_vars


\* C33: no bookAppointment, cancelAppointment, rescheduleAppointment,
\* completeAppointment or updateNotes call removes an appointment: every id
\* in the store before a call is in it after the call, and an id is added
\* only by a successful bookAppointment.
C33_NeverRemoved ==
  [][ /\ DOMAIN appointments \subseteq DOMAIN appointments'
      /\ DOMAIN appointments' # DOMAIN appointments
           => last'.op = "book" /\ last'.success
    ]_vars

\* a cancelled appointment is still in the store, next to another one
C33_Witness ==
  /\ last.op = "cancel"
  /\ last.success
  /\ DOMAIN appointments = {1, 2}
  /\ appointments[1].status = "cancelled"


\* C35: a rescheduleAppointment call that names, for an appointment that is
\* not cancelled, the date and time the appointment already has is refused
\* with "The new time slot is not available" and changes nothing.
C35_OwnSlotRefused ==
  [][ (last'.op = "reschedule"
         /\ (last'.message # "The new time slot is not available"
               \/ appointments' # appointments))
        => \A appointmentId \in DOMAIN appointments :
             appointments[appointmentId].status # "cancelled"
               => ~ RescheduleAppointment(appointmentId, appointments[appointmentId].date,
                                          appointments[appointmentId].time, "none")
    ]_vars

\* the only appointment of the store, confirmed, was refused its own slot
C35_Witness ==
  /\ last.op = "reschedule"
  /\ last.message = "The new time slot is not available"
  /\ DOMAIN appointments = {1}
  /\ appointments[1].status = "confirmed"


\* C37: an updateMood call that supplies an unknown mood, or an intensity
\* outside 1..10 (with or without a valid mood), returns a failure and
\* leaves the stored entry as it was in every field; and no updateMood call
\* changes the userId or the date of an entry.
C37_AllOrNothing ==
  [][ last'.op = "updateMood"
        => /\ \A id \in DOMAIN moods :
                /\ id \in DOMAIN moods'
                /\ moods'[id].userId = moods[id].userId
                /\ moods'[id].date = moods[id].date
           /\ (last'.success \/ moods' # moods)
                => \A moodId \in MoodIds, updates \in MoodUpdates :
                     ( \/ updates.mood \notin ClaimCategories \cup {""}
                       \/ "intensity" \in DOMAIN updates /\ updates.intensity \notin 1..10 )
                       => ~ UpdateMood(moodId, updates, "none")
    ]_vars

\* an update with an intensity out of range was refused on a stored entry
C37_Witness ==
  /\ last.op = "updateMood"
  /\ last.message = "Intensity must be between 1 and 10"
  /\ DOMAIN moods = {1}
  /\ moods[1].mood = "Happy"


\* C36: when two logMood calls interleave their lookup and their write, the
\* moods store still holds at most one entry per (userId, date).
C36_OnePerDayInterleaved ==
  \A userId \in Users, date \in MoodDates :
    Cardinality(ClaimEntries(moods, userId, date)) <= 1


\* C34: a deleteAccount(userId, password) call with the password of the
\* user reports success and leaves no user record, session, therapist
\* connection, appointment or mood entry of that user in the store; with
\* another password it deletes nothing.
C34_FullCleanup ==
  [][ last'.op = "deleteAccount"
        => \A userId \in Users, password \in {"pw1", "pw2"} :
             DeleteAccount(userId, password)
               => IF \E u \in users : u.id = userId /\ u.password = password
                    THEN /\ last'.success
                         /\ ~ \E u \in users' : u.id = userId
                         /\ ~ \E s \in sessions' : s.userId = userId
                         /\ ~ \E ut \in userTherapists' : ut.userId = userId
                         /\ ~ \E id \in DOMAIN appointments' : appointments'[id].userId = userId
                         /\ ~ \E id \in DOMAIN moods' : moods'[id].userId = userId
                    ELSE /\ users' = users
                         /\ sessions' = sessions
                         /\ userTherapists' = userTherapists
                         /\ appointments' = appointments
                         /\ moods' = moods
    ]_vars


\* C39: after any sequence of connectTherapist and disconnectTherapist
\* calls, interleaved connectTherapist calls included, the store holds at
\* most one connection record per (userId, therapistId).
C39_OneConnectionPerPair ==
  \A userId \in Users, therapistId \in Therapists :
    Cardinality({conn \in userTherapists :
                   conn.userId = userId /\ conn.therapistId = therapistId}) <= 1

\* two calls for one pair interleaved: the first insert succeeded, the
\* second failed on the unique index, and the store holds one record
C39_Witness ==
  /\ calls["p1"].pc = "done"
  /\ calls["p2"].pc = "done"
  /\ calls["p1"].userId = "u2"
  /\ calls["p2"].userId = "u2"
  /\ calls["p1"].therapistId = "t1"
  /\ calls["p2"].therapistId = "t1"
  /\ calls["p1"].result.success
  /\ calls["p2"].result.message = "Failed to connect with therapist"
  /\ Cardinality({conn \in userTherapists :
                    conn.userId = "u2" /\ conn.therapistId = "t1"}) = 1


\* C38: for every store, therapist and date, getTherapistAvailability(
\* therapistId, date) returns the sequence that getAvailableSlots(
\* therapistId, date, 50) returns on that store.
C38_SameAsAvailableSlots ==
  query.op = "getTherapistAvailability"
    => query.result = GetAvailableSlots(therapists, appointments, query.args.therapistId,
                                        query.args.date, 50, query.args.fault)

\* t1 works on the day asked for, has a confirmed appointment at 09:00 and
\* a cancelled one at 09:50: the result starts with 09:50
C38_Witness ==
  /\ query.op = "getTherapistAvailability"
  /\ query.args.therapistId = "t1"
  /\ query.args.date = 1
  /\ query.args.fault = "none"
  /\ \E i, j \in DOMAIN appointments :
       /\ appointments[i].therapistId = "t1" /\ appointments[i].date = 1
       /\ appointments[i].time = T0900 /\ appointments[i].status = "confirmed"
       /\ appointments[j].therapistId = "t1" /\ appointments[j].date = 1
       /\ appointments[j].time = T0950 /\ appointments[j].status = "cancelled"
  /\ query.result # <<>>
  /\ query.result[1] = T0950

====
